---- MODULE Spec2Model ----
(***************************************************************************)
(* A model of the coderunr execution engine (api/internal/job/job.go, the  *)
(* HTTP handler and the WebSocket handler).                                *)
(*                                                                         *)
(*   Spec         the concurrency gate, box allocation and the job         *)
(*                pipeline of Execute / ExecuteStream for NJobs            *)
(*                concurrent requests.                                     *)
(*   SpecHandler  one request through ExecuteCode / handleInitRaw, of      *)
(*                every request shape and with every stage outcome.        *)
(*   SpecWrap     Spec started in the state where one job still holds its  *)
(*                first box and the box ID counter is about to wrap.       *)
(*   SpecStream   one ExecuteStream call in detail: reader goroutines,     *)
(*                output budget, EventChannel.                             *)
(*   SpecSession  one streaming session: ExecuteStream, the event loop of  *)
(*                executeJob, eventBus, eventSender and the close.         *)
(*   SpecStdin    one streaming session whose peer sends stdin chunks:     *)
(*                handleData, StdinChannel, the stdin goroutines.          *)
(*   SpecPkg      InstallPackage, UninstallPackage and the runtime         *)
(*                registry.                                                *)
(*   SpecGate     waitForSlot / releaseSlot with one job more than Spec    *)
(*                and callers that go away while they wait.                *)
(*   SpecProto    the messages of one WebSocket peer: handleMessages,      *)
(*                handleInitRaw, handleData, handleSignal, the init timer. *)
(*   SpecFiles    prime writing the files of one job: writeFile.           *)
(*   SpecCalc     one computation on every input: the limits of a runtime  *)
(*                in loadPackage, the time arguments of isolate, the box   *)
(*                ID of createIsolateBox.                                  *)
(*   SpecCall     one safeCall of Execute in detail: the stdin goroutine,  *)
(*                the process, the readWithLimit goroutines, cmd.Wait().   *)
(***************************************************************************)
EXTENDS Integers, Sequences, FiniteSets, TLC

\* ------------------------------------------------------------------ bounds

\* number of requests the server receives
NJobs == 2

\* cfg.MaxConcurrentJobs in Spec (config.go:118 requires it to be positive)
MaxConcurrentJobs == 1

\* capacity of Job.EventChannel in SpecStream; the code makes it 100
\* (job.go:174), the model fills a shorter one
EventChannelCap == 2

\* capacity of WebSocketConnection.eventBus; the code makes it 100
\* (websocket.go:428), the model fills a shorter one
EventBusCap == 2

\* lines the processes of one streaming job write
MaxLines == 2

\* largest runtime.OutputMaxSize tried, in bytes
MaxBudget == 1

\* longest stdin string of a request, in bytes
MaxStdinLen == 2

\* capacity of Job.StdinChannel; the code makes it 10 (job.go:175), the
\* model fills a shorter one
StdinChannelCap == 1

\* stdin chunks the peer of a streaming session sends
MaxChunks == 2

\* client messages one streaming session handles
MaxMessages == 3

\* characters of a file name
MaxNameLen == 3

\* files of a job that prime writes
MaxFiles == 2

\* the longest time budget of a stage, in seconds
MaxSeconds == 2

\* versions of a language in the package repository: 1..MaxVersion
MaxVersion == 2

\* entries the runtime registry is let grow to
MaxRuntimes == 2

\* ------------------------------------------------------- program constants

\* job.go:30
MaxBoxID == 999

\* ----------------------------------------------------------------- helpers

Jobs == 1..NJobs

\* a Go pointer: <<>> is nil, <<v>> points to v
Nil == <<>>
Ptr(v) == <<v>>
IsNil(p) == p = <<>>
Deref(p) == p[1]

\* atomic.AddInt32(&a, d): the sum wraps around in 32 bits
AddInt32(a, d) ==
    IF d > 0 /\ a > 2147483647 - d
    THEN (a - 2147483647 - 1) + (d - 2147483647 - 1)
    ELSE IF d < 0 /\ a < (-2147483647 - 1) - d
    THEN (a + 2147483647 + 1) + (d + 2147483647 + 1)
    ELSE a + d

\* Go's % truncates toward zero: the result has the sign of the dividend
\* (for a negative dividend, the remainder above zero less the divisor)
GoRem(a, b) == IF a >= 0 \/ a % b = 0 THEN a % b ELSE (a % b) - b

\* boxID := int(atomic.AddInt32(&boxIDCounter, 1) % MaxBoxID)
BoxIDOf(counter) == GoRem(counter, MaxBoxID)

\* ------------------------------------------------------- runtime registry

LimitNames ==
    {"compile_timeout", "run_timeout", "compile_cpu_time", "run_cpu_time",
     "compile_memory_limit", "run_memory_limit"}

\* The loaded runtimes.  Limits are in the units of the request (ms, bytes).
\* py is interpreted and has no memory cap (-1); go is compiled and has a
\* positive maximum for every limit.
Runtimes ==
    { [language |-> "py", aliases |-> {"python3"}, version |-> 1, compiled |-> FALSE,
       limits |-> [compile_timeout |-> 2, run_timeout |-> 2,
                   compile_cpu_time |-> 2, run_cpu_time |-> 2,
                   compile_memory_limit |-> -1, run_memory_limit |-> -1]],
      [language |-> "go", aliases |-> {}, version |-> 1, compiled |-> TRUE,
       limits |-> [compile_timeout |-> 2, run_timeout |-> 2,
                   compile_cpu_time |-> 2, run_cpu_time |-> 2,
                   compile_memory_limit |-> 2, run_memory_limit |-> 2]] }

\* semver.NewConstraint(version).Check(v): "" does not parse, "*" matches all
ConstraintOK(version) == version # ""
ConstraintCheck(version, v) == version = "*" \/ (version = "v1" /\ v = 1)

\* GetLatestRuntimeMatchingLanguageVersion: <<>> is the error return
GetLatestRuntimeMatchingLanguageVersion(language, version) ==
    IF ~ConstraintOK(version) THEN Nil
    ELSE LET candidates ==
                 { rt \in Runtimes :
                     /\ (rt.language = language \/ language \in rt.aliases)
                     /\ ConstraintCheck(version, rt.version) }
         IN IF candidates = {} THEN Nil
            ELSE Ptr(CHOOSE rt \in candidates :
                        \A c \in candidates : c.version <= rt.version)

\* ---------------------------------------------------------------- requests

\* types.CodeFile as it arrives: hasContent is FALSE when the init map of a
\* streaming request holds no string under "content"
FileOK      == [hasContent |-> TRUE,  content |-> "x",    encoding |-> ""]
FileEmpty   == [hasContent |-> TRUE,  content |-> "",     encoding |-> ""]
FileMissing == [hasContent |-> FALSE, content |-> "",     encoding |-> ""]
FileBase64  == [hasContent |-> TRUE,  content |-> "eA==", encoding |-> "base64"]

NoOverride == [name |-> "none", val |-> 0]

\* types.JobRequest plus the path it arrives on; ovr is the one limit override
\* the request carries (a pointer field of JobRequest), if any
MkRequest(mode, language, version, files, ovr) ==
    [mode |-> mode, language |-> language, version |-> version,
     files |-> files, ovr |-> ovr]

NoRequest == MkRequest("", "", "", <<>>, NoOverride)

Modes == {"sync", "stream"}

\* well-formed requests without overrides
PlainRequests ==
    { MkRequest(m, l, "*", <<FileOK>>, NoOverride) : m \in Modes, l \in {"py", "go"} }

\* requests that break one validation rule
InvalidRequests ==
    UNION { { MkRequest(m, "", "*", <<FileOK>>, NoOverride),
              MkRequest(m, "py", "", <<FileOK>>, NoOverride),
              MkRequest(m, "py", "*", <<>>, NoOverride),
              MkRequest(m, "go", "*", <<FileOK, FileEmpty>>, NoOverride),
              MkRequest(m, "py", "*", <<FileEmpty>>, NoOverride),
              MkRequest(m, "py", "*", <<FileMissing>>, NoOverride),
              MkRequest(m, "go", "*", <<FileBase64>>, NoOverride),
              MkRequest(m, "rust", "*", <<FileOK>>, NoOverride),
              MkRequest(m, "py", "v2", <<FileOK>>, NoOverride) } : m \in Modes }

OverrideValues == {-1, 0, 1, 2, 3}

\* requests with one limit override: below, at and above the maximum, negative
OverrideRequests ==
    { MkRequest(m, l, "*", <<FileOK>>, [name |-> n, val |-> v]) :
        m \in Modes, l \in {"py", "go"}, n \in LimitNames, v \in OverrideValues }

AllRequests == PlainRequests \cup InvalidRequests \cup OverrideRequests

\* the pointer field of JobRequest for limit `name`
OvrPtr(req, name) == IF req.ovr.name = name THEN Ptr(req.ovr.val) ELSE Nil

\* ------------------------------------------------------------- validation

\* Handler.validateJobRequest: TRUE when it returns an error
validateJobRequest(req) ==
    \/ req.language = ""
    \/ req.version = ""
    \/ Len(req.files) = 0
    \/ \E i \in 1..Len(req.files) : req.files[i].content = ""

\* one entry of the constraint tables of validateConstraints
ConstraintViolated(value, configLimit) ==
    /\ ~IsNil(value)
    /\ configLimit > 0
    /\ (Deref(value) > configLimit \/ Deref(value) < 0)

\* Handler.validateConstraints: TRUE when it returns an error
validateConstraints(req, rt) ==
    \/ /\ rt.language # "file"
       /\ ~\E i \in 1..Len(req.files) : req.files[i].encoding \in {"", "utf8"}
    \/ \E n \in LimitNames : ConstraintViolated(OvrPtr(req, n), rt.limits[n])

\* WebSocketConnection.sendError: queues an error message and returns nil,
\* that is, "no error"
WsSendError == FALSE

\* WebSocketConnection.validateJobRequest: every failing rule returns the
\* value of sendError
WsValidateJobRequest(req) ==
    IF req.language = "" THEN WsSendError
    ELSE IF req.version = "" THEN WsSendError
    ELSE IF Len(req.files) = 0 THEN WsSendError
    ELSE IF \E i \in 1..Len(req.files) : req.files[i].content = "" THEN WsSendError
    ELSE FALSE

\* whether WebSocketConnection.validateJobRequest sends an error message
WsValidateSendsError(req) == validateJobRequest(req)

\* buildJobRequestFromMap: TRUE when it returns an error
buildJobRequestFromMapErr(req) ==
    \E i \in 1..Len(req.files) : ~req.files[i].hasContent

\* Manager.NewJob: the job's effective limits, files and runtime
NewJob(rt, req) ==
    [language |-> rt.language,
     compiled |-> rt.compiled,
     mode     |-> req.mode,
     nfiles   |-> Len(req.files),
     limits   |-> [n \in LimitNames |->
                     IF IsNil(OvrPtr(req, n)) THEN rt.limits[n]
                     ELSE Deref(OvrPtr(req, n))]]

NoJob == [language |-> "", compiled |-> FALSE, mode |-> "", nfiles |-> 0,
          limits |-> [n \in LimitNames |-> 0]]

\* ----------------------------------------------------------- stage results

\* signalToString
signalToString(sig) ==
    CASE sig = 2  -> "SIGINT"
      [] sig = 9  -> "SIGKILL"
      [] sig = 11 -> "SIGSEGV"
      [] sig = 15 -> "SIGTERM"
      [] OTHER    -> "SIG" \o ToString(sig)

\* what isolate leaves behind when a stage ends: the exit code of the isolate
\* process and the metadata file (key:value lines; <<>> when it cannot be read)
MetaStatuses == {"", "RE", "SG", "TO", "OL", "EL", "XX"}
MetaFiles ==
    {Nil} \cup { Ptr([status |-> st, exitsig |-> sg, exitcode |-> ec]) :
                   st \in MetaStatuses, sg \in {Nil, Ptr(9), Ptr(11), Ptr(64)},
                   ec \in {Nil, Ptr(0), Ptr(1)} }
ExitCodes == {0, 1, -1}
AllOutcomes == { [exitCode |-> c, meta |-> m] : c \in ExitCodes, m \in MetaFiles }

\* the two outcomes that decide the pipeline: a clean exit and a non-zero exit
FewOutcomes ==
    { [exitCode |-> 0,  meta |-> Ptr([status |-> "",   exitsig |-> Nil, exitcode |-> Nil])],
      [exitCode |-> 1,  meta |-> Ptr([status |-> "RE", exitsig |-> Nil, exitcode |-> Nil])] }

\* parseMetadata: the fields safeCall reads
parseMetadata(meta) ==
    IF IsNil(meta) THEN Nil
    ELSE Ptr([Status |-> Deref(meta).status,
              ExitCode |-> IF IsNil(Deref(meta).exitcode) THEN 0
                           ELSE Deref(Deref(meta).exitcode),
              Signal |-> IF IsNil(Deref(meta).exitsig) THEN ""
                         ELSE signalToString(Deref(Deref(meta).exitsig))])

\* a result assembly that keeps the exit code next to the signal
KeepCodeOnSignal(r) == r

\* "Piston semantics: if a signal is present, code must be null"
ClearCodeOnSignal(r) == IF r.Signal # "" THEN [r EXCEPT !.Code = Nil] ELSE r

\* an override that knows the time limit only
KilledOnTimeoutOnly(status) == status = "TO"

\* "Override signal for certain statuses"
KilledByIsolate(status) == status \in {"TO", "OL", "EL"}

\* the StageResult safeCall and safeCallStream assemble after cmd.Wait()
StageResultOf(out) ==
    LET metadata == parseMetadata(out.meta)
        waitErr  == out.exitCode # 0
        r0 == [Code |-> Ptr(out.exitCode), Signal |-> "", Status |-> ""]
        r1 == IF IsNil(metadata) THEN r0
              ELSE [r0 EXCEPT !.Status = Deref(metadata).Status,
                              !.Signal = Deref(metadata).Signal]
        r2 == IF KilledByIsolate(r1.Status)
              THEN [r1 EXCEPT !.Signal = "SIGKILL"] ELSE r1
        r3 == ClearCodeOnSignal(r2)
    IN IF waitErr /\ r3.Status = "" THEN [r3 EXCEPT !.Status = "RE"] ELSE r3

\* a job that would go on to the run stage whatever the compile stage gave
CompileNeverFailed(cr) == FALSE

\* "If compilation failed, don't run"
CompileFailed(cr) == cr.Signal # "" \/ (~IsNil(cr.Code) /\ Deref(cr.Code) # 0)

\* ------------------------------------------------------------------- state

VARIABLES
    maxJobs,         \* cfg.MaxConcurrentJobs
    boxIDCounter,    \* package variable, int32
    remainingSlots,  \* package variable, int32
    queueMutex,      \* 0 when free, else the job holding it
    condQueue,       \* queueCondition's notify list, oldest waiter first
    pc,              \* where each request is in its handler
    req,             \* the request a context is serving
    job,             \* the Job NewJob built for it
    created,         \* whether NewJob was called for the request
    jstate,          \* Job.State
    dirtyBoxes,      \* Job.dirtyBoxes: box IDs
    box,             \* the local variable box of Execute: a box ID
    result,          \* what Execute / ExecuteStream returns
    response,        \* what the handler answers
    wsSent,          \* message types the streaming handler queued at init
    liveBoxes,       \* isolate's boxes: initialised and not cleaned up
    allocated,       \* boxes isolate --init created for the request
    cleaned,         \* box IDs the request ran isolate --cleanup for
    ranStage,        \* stages the request invoked
    holding,         \* returned from waitForSlot, releaseSlot not yet called
    crashed,         \* the process died of an unrecovered panic
    \* one ExecuteStream call in detail (SpecStream)
    outputBudget,    \* Job.outputBudget: runtime.OutputMaxSize, <= 0 is unlimited
    outputSent,      \* Job.outputSent
    killOnce,        \* Job.killOnce has run
    runningCmd,      \* Job.runningCmd # nil
    EventChannel,    \* Job.EventChannel: the events buffered in it
    chanClosed,      \* close(j.EventChannel) has run
    spc,             \* where ExecuteStream is
    stage,           \* the stage ExecuteStream is at
    stageResult,     \* what safeCallStream returned for it
    proc,            \* the isolate process of each stage
    rpc,             \* where each streamOutput goroutine is
    rlen,            \* len(line) of the line a streamOutput goroutine holds
    nlines,          \* lines the job's processes have written so far
    trace,           \* what has been put into EventChannel, and what was dropped
    \* the WebSocket connection of the streaming job
    eventBus,        \* WebSocketConnection.eventBus: the messages buffered in it
    closed,          \* WebSocketConnection.closed
    peerLog,         \* the messages conn.WriteJSON has written to the peer
    execErr,         \* ExecuteStream returns a non-nil error
    \* one safeCall in detail (SpecCall)
    reqStdin,        \* JobRequest.Stdin
    jobStdin,        \* Job.Stdin
    procStdin,       \* the bytes the stage process has got on its stdin
    stdinState,      \* where the goroutine that writes stdin is
    outputMaxSize,   \* Runtime.OutputMaxSize
    cproc,           \* the isolate process of the call
    pipe,            \* the lines in each output pipe, not yet read
    wrote,           \* every line the process wrote to each stream
    buf,             \* stdoutBuf, stderrBuf and outputBuf
    creader,         \* where each readWithLimit goroutine is
    callResult,      \* the StageResult safeCall returns: Stdout, Stderr
    \* the stdin of a streaming job (SpecStdin)
    StdinChannel,    \* Job.StdinChannel: the chunks buffered in it
    nsent,           \* data messages the peer has sent; chunk k is the k-th
    runChunks,       \* chunks WriteStdin accepted while the run process ran
    gpc,             \* where the stdin goroutine of each stage is
    took,            \* the chunks each stdin goroutine received
    stdinLog,        \* what each stage process has got on its stdin
    \* packages and the runtime registry (SpecPkg)
    disk,            \* the install directory of each package
    langDirs,        \* languages with a directory under packages/
    runtimes,        \* package variable runtimes of internal/runtime
    pkgLast,         \* the last InstallPackage / UninstallPackage call
    pkgSnap,         \* disk and registry before the last InstallPackage call
    lookup,          \* the last GetLatestRuntimeMatchingLanguageVersion call
    \* waiting for a slot (SpecGate)
    fifo,            \* who has parked in waitForSlot, and who was there before whom
    ctxDone,         \* the context of the job was cancelled while it was in waitForSlot
    \* the messages of the peer of a streaming session (SpecProto)
    wsJob,           \* WebSocketConnection.job: 0 is nil, else the number of the job
    jobsMade,        \* calls of NewJob the session has made
    closeCode,       \* the code of the close frame written to the peer, 0 if none
    phase,           \* the process of the job: Job.runningCmd is set while "running"
    signalled,       \* the signals Job.SendSignal has sent to the process
    nmsg,            \* client messages handled so far
    hret,            \* handleMessages has returned
    timer,           \* the initialization timer has fired
    last,            \* the client message handled last, and what was there before it
    \* the files prime writes (SpecFiles)
    tree,            \* the files below the box directory, as paths from the root
    nwritten,        \* calls of writeFile so far
    flast,           \* the last call of writeFile: the name, the error, the path
    \* limits and isolate arguments (SpecCalc)
    calc             \* the last computation: its inputs and its result

gateVars == <<maxJobs, remainingSlots, queueMutex, condQueue>>
boxVars  == <<boxIDCounter, dirtyBoxes, box, liveBoxes, allocated, cleaned>>
reqVars  == <<req, job, created, response, wsSent>>
jobVars  == <<pc, jstate, result, ranStage, holding, crashed>>
coreVars == <<gateVars, boxVars, reqVars, jobVars>>
streamVars == <<outputBudget, outputSent, killOnce, runningCmd, EventChannel,
                chanClosed, spc, stage, stageResult, proc, rpc, rlen, nlines, trace>>
sessionVars == <<eventBus, closed, peerLog, execErr>>
callVars == <<reqStdin, jobStdin, procStdin, stdinState, outputMaxSize, cproc,
              pipe, wrote, buf, creader, callResult>>
stdinVars == <<StdinChannel, nsent, runChunks, gpc, took, stdinLog>>
pkgVars == <<disk, langDirs, runtimes, pkgLast, pkgSnap, lookup>>
waitVars == <<fifo, ctxDone>>
protoVars == <<wsJob, jobsMade, closeCode, phase, signalled, nmsg, hret, timer, last>>
fileVars == <<tree, nwritten, flast>>
calcVars == <<calc>>
nonWaitVars == <<sessionVars, callVars, stdinVars, pkgVars, protoVars, fileVars, calcVars>>
offStreamVars == <<callVars, stdinVars, pkgVars, waitVars, protoVars, fileVars, calcVars>>
restVars == <<sessionVars, offStreamVars>>

NoResult == [compile |-> Nil, run |-> Nil, err |-> ""]
NoResponse == [status |-> 0, compile |-> Nil, run |-> Nil]

TypeOK ==
    /\ maxJobs \in Nat
    /\ boxIDCounter \in Int
    /\ remainingSlots \in Int
    /\ queueMutex \in 0..NJobs
    /\ condQueue \in Seq(Jobs)
    /\ \A j \in Jobs : pc[j] \in {"idle", "lock", "enqueue", "waiting", "wake",
                                  "prime", "compile", "runbox", "run",
                                  "release", "cleanup", "done", "stream"}
    /\ crashed \in BOOLEAN

\* ------------------------------------------------------------ the handlers

\* a request arrives at a handler
Fresh(j, r) ==
    /\ req' = [req EXCEPT ![j] = r]
    /\ UNCHANGED <<gateVars, boxVars, result, ranStage, holding, crashed, streamVars,
                   nonWaitVars, ctxDone>>

Rejected(j, status, sent) ==
    /\ UNCHANGED fifo
    /\ job' = [job EXCEPT ![j] = NoJob]
    /\ created' = [created EXCEPT ![j] = FALSE]
    /\ jstate' = [jstate EXCEPT ![j] = "none"]
    /\ response' = [response EXCEPT ![j] = [NoResponse EXCEPT !.status = status]]
    /\ wsSent' = [wsSent EXCEPT ![j] = sent]
    /\ pc' = [pc EXCEPT ![j] = "done"]

\* the job is on its way to waitForSlot: the jobs parked there are ahead of it
Accepted(j, rt, r, sent) ==
    /\ fifo' = [fifo EXCEPT !.ahead[j] = fifo.waiters]
    /\ job' = [job EXCEPT ![j] = NewJob(rt, r)]
    /\ created' = [created EXCEPT ![j] = TRUE]
    /\ jstate' = [jstate EXCEPT ![j] = "Ready"]
    /\ response' = [response EXCEPT ![j] = NoResponse]
    /\ wsSent' = [wsSent EXCEPT ![j] = sent]
    /\ pc' = [pc EXCEPT ![j] = "lock"]

\* Handler.ExecuteCode up to the call of job.Execute
ExecuteCode(j, r) ==
    /\ ~crashed /\ pc[j] = "idle"
    /\ r.mode = "sync"
    /\ Fresh(j, r)
    /\ LET rt == GetLatestRuntimeMatchingLanguageVersion(r.language, r.version)
       IN IF validateJobRequest(r) THEN Rejected(j, 400, <<>>)
          ELSE IF IsNil(rt) THEN Rejected(j, 400, <<>>)
          ELSE IF validateConstraints(r, Deref(rt)) THEN Rejected(j, 400, <<>>)
          ELSE Accepted(j, Deref(rt), r, <<>>)

\* WebSocketConnection.handleInitRaw on a connection without a job, up to
\* "go wsConn.executeJob(ctx)"
handleInitRaw(j, r) ==
    /\ ~crashed /\ pc[j] = "idle"
    /\ r.mode = "stream"
    /\ Fresh(j, r)
    /\ LET rt == GetLatestRuntimeMatchingLanguageVersion(r.language, r.version)
           verr == IF WsValidateSendsError(r) THEN <<"error">> ELSE <<>>
       IN IF buildJobRequestFromMapErr(r) THEN Rejected(j, 0, <<"error">>)
          ELSE IF WsValidateJobRequest(r) THEN Rejected(j, 0, verr)
          ELSE IF IsNil(rt) THEN Rejected(j, 0, verr \o <<"error">>)
          ELSE Accepted(j, Deref(rt), r, verr \o <<"runtime", "init_ack">>)

\* ------------------------------------------------------ the concurrency gate

\* a gate that lets a caller through at zero remaining slots
SlotFreeAtZero == remainingSlots >= 0

\* the loop condition of waitForSlot, read with the mutex held:
\* "for atomic.LoadInt32(&remainingSlots) <= 0" is left when this holds
SlotFree == remainingSlots > 0

\* the record of the order of waiting once j has its slot: j waits no more,
\* and every job that was ahead of j has been passed by j
Granted(j) ==
    [waiters |-> fifo.waiters \ {j},
     ahead   |-> [k \in DOMAIN fifo.ahead |-> IF k = j THEN {} ELSE fifo.ahead[k] \ {j}],
     passed  |-> fifo.passed \cup { <<j, k>> : k \in fifo.ahead[j] }]

\* the record once j parks in queueCondition.Wait(): the first time, the
\* jobs parked before it are ahead of it
Parked(j) ==
    IF j \in fifo.waiters THEN fifo
    ELSE [fifo EXCEPT !.waiters = @ \cup {j}, !.ahead[j] = @ \cup fifo.waiters]

\* the body of waitForSlot from a point where the caller holds queueMutex:
\* test the loop condition; leave the loop, take the slot and unlock (the
\* deferred Unlock), or go on to queueCondition.Wait()
TestSlot(j) ==
    IF SlotFree
    THEN /\ fifo' = Granted(j)
         /\ remainingSlots' = AddInt32(remainingSlots, -1)
         /\ queueMutex' = 0
         /\ holding' = [holding EXCEPT ![j] = TRUE]
         /\ pc' = [pc EXCEPT ![j] = "prime"]
    ELSE /\ queueMutex' = j
         /\ pc' = [pc EXCEPT ![j] = "enqueue"]
         /\ UNCHANGED <<remainingSlots, holding, fifo>>

\* waitForSlot: queueMutex.Lock() and the first test of the loop condition
WaitLock(j) ==
    /\ ~crashed /\ pc[j] = "lock"
    /\ queueMutex = 0
    /\ TestSlot(j)
    /\ UNCHANGED <<maxJobs, condQueue, boxVars, reqVars, jstate, result, ranStage, crashed,
                   streamVars, nonWaitVars, ctxDone>>

\* queueCondition.Wait(): join the notify list, unlock, park
WaitEnqueue(j) ==
    /\ ~crashed /\ pc[j] = "enqueue"
    /\ condQueue' = Append(condQueue, j)
    /\ fifo' = Parked(j)
    /\ queueMutex' = 0
    /\ pc' = [pc EXCEPT ![j] = "waiting"]
    /\ UNCHANGED <<maxJobs, remainingSlots, boxVars, reqVars, jstate, result,
                   ranStage, holding, crashed,
                   streamVars, nonWaitVars, ctxDone>>

\* queueCondition.Wait() after the wake-up: lock the mutex again and test
\* the loop condition again
WaitWake(j) ==
    /\ ~crashed /\ pc[j] = "wake"
    /\ queueMutex = 0
    /\ TestSlot(j)
    /\ UNCHANGED <<maxJobs, condQueue, boxVars, reqVars, jstate, result, ranStage, crashed,
                   streamVars, nonWaitVars, ctxDone>>

\* Job.releaseSlot: atomic.AddInt32(&remainingSlots, 1), then
\* queueCondition.Signal(), which wakes the oldest waiter, if any
releaseSlot(j) ==
    /\ ~crashed /\ pc[j] = "release"
    /\ remainingSlots' = AddInt32(remainingSlots, 1)
    /\ holding' = [holding EXCEPT ![j] = FALSE]
    /\ IF condQueue = <<>>
       THEN /\ pc' = [pc EXCEPT ![j] = "cleanup"]
            /\ UNCHANGED condQueue
       ELSE /\ pc' = [pc EXCEPT ![j] = "cleanup", ![Head(condQueue)] = "wake"]
            /\ condQueue' = Tail(condQueue)
    /\ UNCHANGED <<maxJobs, queueMutex, boxVars, reqVars, jstate, result, ranStage, crashed,
                   streamVars, restVars>>

\* where a job is that has found no slot free and is in the loop of waitForSlot
InWait == {"enqueue", "waiting", "wake"}

\* the caller of a request that waits for a slot goes away: the context
\* Execute / ExecuteStream got is cancelled.  waitForSlot takes no context
\* and createIsolateBox starts isolate with exec.Command, so neither sees it.
Disconnect(j) ==
    /\ ~crashed /\ pc[j] \in InWait
    /\ ~ctxDone[j]
    /\ ctxDone' = [ctxDone EXCEPT ![j] = TRUE]
    /\ UNCHANGED <<coreVars, streamVars, nonWaitVars, fifo>>

\* ------------------------------------------------------------------- boxes

\* what `isolate --init` can do: create the box and print its path, fail,
\* or exit 0 without printing a path
InitOutcomes == {"ok", "fail", "empty"}

\* a box of isolate: its ID, the request that initialised it, and the counter
\* value of its allocation
MkBox(j, counter) == [id |-> BoxIDOf(counter), owner |-> j, tag |-> counter]

\* createIsolateBox: TRUE in o when isolate --init gave the box
BoxCreated(o, counter) == o = "ok" /\ BoxIDOf(counter) >= 0

\* Job.createIsolateBox with isolate's answer o
createIsolateBox(j, o) ==
    LET c == AddInt32(boxIDCounter, 1)
    IN /\ boxIDCounter' = c
       /\ IF BoxCreated(o, c)
          THEN /\ dirtyBoxes' = [dirtyBoxes EXCEPT ![j] = Append(@, BoxIDOf(c))]
               /\ liveBoxes' = liveBoxes \cup {MkBox(j, c)}
               /\ allocated' = [allocated EXCEPT ![j] = @ \cup {MkBox(j, c)}]
          ELSE UNCHANGED <<dirtyBoxes, liveBoxes, allocated>>

\* a cleanup that only knows the box the job is using
CleanupCurrentBox(j) == { box[j] }

\* the box IDs Job.cleanup runs `isolate --cleanup` for
CleanupTargets(j) == { dirtyBoxes[j][i] : i \in 1..Len(dirtyBoxes[j]) }

\* ---------------------------------------------------------------- pipeline

\* an error return that would leave out the deferred releaseSlot
ReturnWithoutRelease(j, err) ==
    /\ result' = [result EXCEPT ![j].err = err]
    /\ pc' = [pc EXCEPT ![j] = "cleanup"]

\* an error return of Execute / ExecuteStream after waitForSlot: the
\* deferred releaseSlot is next
Return(j, err) ==
    /\ result' = [result EXCEPT ![j].err = err]
    /\ pc' = [pc EXCEPT ![j] = "release"]

\* Job.prime: first box, submission directory, files
Prime(j) ==
    /\ ~crashed /\ pc[j] = "prime"
    /\ \E o \in InitOutcomes, written \in BOOLEAN :
         /\ createIsolateBox(j, o)
         /\ IF BoxCreated(o, boxIDCounter') /\ written
            THEN /\ box' = [box EXCEPT ![j] = BoxIDOf(boxIDCounter')]
                 /\ jstate' = [jstate EXCEPT ![j] = "Primed"]
                 /\ pc' = [pc EXCEPT ![j] = IF job[j].compiled THEN "compile" ELSE "run"]
                 /\ UNCHANGED result
            ELSE /\ Return(j, "prime")
                 /\ UNCHANGED <<box, jstate>>
    /\ UNCHANGED <<gateVars, cleaned, reqVars, ranStage, holding, crashed,
                   streamVars, restVars>>

\* the compile stage of Execute / ExecuteStream: safeCall, then the test of
\* its result
Compile(j, outs) ==
    /\ ~crashed /\ pc[j] = "compile"
    /\ ranStage' = [ranStage EXCEPT ![j] = @ \cup {"compile"}]
    /\ \/ Return(j, "compile")
       \/ \E out \in outs :
            LET cr == StageResultOf(out)
            IN /\ result' = [result EXCEPT ![j].compile = Ptr(cr)]
               /\ pc' = [pc EXCEPT ![j] = IF CompileFailed(cr) THEN "release" ELSE "runbox"]
    /\ UNCHANGED <<gateVars, boxVars, reqVars, jstate, holding, crashed,
                   streamVars, restVars>>

\* the box of the run stage and the move of submission/ into it
RunBox(j) ==
    /\ ~crashed /\ pc[j] = "runbox"
    /\ \E o \in InitOutcomes, moved \in BOOLEAN :
         /\ createIsolateBox(j, o)
         /\ IF ~BoxCreated(o, boxIDCounter') THEN Return(j, "runbox") /\ UNCHANGED box
            ELSE IF ~moved THEN Return(j, "move") /\ UNCHANGED box
            ELSE /\ box' = [box EXCEPT ![j] = BoxIDOf(boxIDCounter')]
                 /\ pc' = [pc EXCEPT ![j] = "run"]
                 /\ UNCHANGED result
    /\ UNCHANGED <<gateVars, cleaned, reqVars, jstate, ranStage, holding, crashed,
                   streamVars, restVars>>

\* the run stage: j.Files[0] panics on an empty file list
Run(j, outs) ==
    /\ ~crashed /\ pc[j] = "run"
    /\ IF job[j].nfiles = 0
       THEN Return(j, "panic") /\ UNCHANGED <<ranStage, jstate>>
       ELSE /\ ranStage' = [ranStage EXCEPT ![j] = @ \cup {"run"}]
            /\ \/ Return(j, "run") /\ UNCHANGED jstate
               \/ \E out \in outs :
                    /\ result' = [result EXCEPT ![j].run = Ptr(StageResultOf(out))]
                    /\ jstate' = [jstate EXCEPT ![j] = "Executed"]
                    /\ pc' = [pc EXCEPT ![j] = "release"]
    /\ UNCHANGED <<gateVars, boxVars, reqVars, holding, crashed,
                   streamVars, restVars>>

\* a handler that answers with the result as Execute returned it
RunAsReturned(res) == res.run

\* "Handle backward compatibility (Piston behavior)" in ExecuteCode
PistonRun(res) == IF IsNil(res.run) /\ ~IsNil(res.compile) THEN res.compile ELSE res.run

\* what the handler answers once Execute / ExecuteStream has returned:
\* ExecuteCode writes the result or a 500, executeJob closes the session
\* with code 4999
ResponseOf(mode, res) ==
    IF mode = "stream" THEN [NoResponse EXCEPT !.status = 4999]
    ELSE IF res.err # "" THEN [NoResponse EXCEPT !.status = 500]
    ELSE [status |-> 200, compile |-> res.compile, run |-> PistonRun(res)]

\* Job.cleanup (deferred first, so it runs last): isolate --cleanup for every
\* box of dirtyBoxes; the call returns and the handler answers.  A panic of
\* ExecuteStream's goroutine ends the process instead.
Cleanup(j) ==
    /\ ~crashed /\ pc[j] = "cleanup"
    /\ cleaned' = [cleaned EXCEPT ![j] = CleanupTargets(j)]
    /\ liveBoxes' = { b \in liveBoxes : b.id \notin CleanupTargets(j) }
    /\ crashed' = (result[j].err = "panic" /\ job[j].mode = "stream")
    /\ response' = [response EXCEPT ![j] = ResponseOf(job[j].mode, result[j])]
    /\ pc' = [pc EXCEPT ![j] = "done"]
    /\ UNCHANGED <<gateVars, boxIDCounter, dirtyBoxes, box, allocated, req, job,
                   created, wsSent, jstate, result, ranStage, holding,
                   streamVars, restVars>>

\* ------------------------------------------------ ExecuteStream in detail

Stages == {"compile", "run"}
Streams == {"stdout", "stderr"}

\* the streamOutput goroutines safeCallStream starts: one per stage and pipe
Readers == Stages \X Streams

\* len(line): empty lines up to lines longer than every budget tried
LineLens == 0..(MaxBudget + 1)

\* types.StreamEvent: tag is the stage, the stream or the error text
Event(type, tag, n) == [type |-> type, tag |-> tag, n |-> n]

OutputLimitExceeded == Event("error", "output limit exceeded", 0)

NoTrace == [ole |-> 0, dataBytes |-> 0, started |-> {}, ended |-> {},
            dropped |-> {}, breach |-> FALSE, late |-> {},
            clean |-> {}, zero |-> {}]

\* the record of an event that got into EventChannel
Record(t, e) ==
    CASE e.type = "data"         -> [t EXCEPT !.dataBytes = @ + e.n]
      [] e.type = "stage_start"  -> [t EXCEPT !.started = @ \cup {e.tag}]
      [] e.type = "stage_end"    ->
             [t EXCEPT !.ended = @ \cup {e.tag},
                       !.zero = IF e.n = 0 THEN @ \cup {e.tag} ELSE @]
      [] e = OutputLimitExceeded -> [t EXCEPT !.ole = @ + 1]
      [] OTHER                   -> t

\* a full channel makes the select of sendEvent take its default branch
ChannelFull == Len(EventChannel) >= EventChannelCap

\* the record of a data event with output of stage st: late if the
\* stage_end of st is in EventChannel already
RecordData(t, e, st) ==
    [Record(t, e) EXCEPT !.late = IF st \in t.ended THEN @ \cup {st} ELSE @]

\* Job.sendEvent: a non-blocking send; a send on a closed channel panics.
\* t is the record kept of the event if it gets into the channel.
sendEventAs(e, t) ==
    IF chanClosed
    THEN /\ crashed' = TRUE
         /\ UNCHANGED <<EventChannel, trace>>
    ELSE IF ChannelFull
    THEN /\ trace' = [trace EXCEPT !.dropped = @ \cup {e.type}]
         /\ UNCHANGED <<EventChannel, crashed>>
    ELSE /\ EventChannel' = Append(EventChannel, e)
         /\ trace' = t
         /\ UNCHANGED crashed

sendEvent(e) == sendEventAs(e, Record(trace, e))

\* the request that runs ExecuteStream in SpecStream
StreamJob == CHOOSE j \in Jobs : \A k \in Jobs : j <= k

\* ExecuteStream after prime: the first stage_start
StreamBegin ==
    /\ ~crashed /\ spc = "begin"
    /\ LET st == IF job[StreamJob].compiled THEN "compile" ELSE "run"
       IN /\ stage' = st
          /\ sendEvent(Event("stage_start", st, 0))
    /\ spc' = "call"
    /\ UNCHANGED <<gateVars, boxVars, reqVars, pc, jstate, result, ranStage, holding>>
    /\ UNCHANGED <<outputBudget, outputSent, killOnce, runningCmd, chanClosed,
                   stageResult, proc, rpc, rlen, nlines>>
    /\ UNCHANGED restVars

\* ExecuteStream returns: the deferred calls are next
StreamReturn ==
    /\ spc' = "return"
    /\ pc' = [pc EXCEPT ![StreamJob] = "release"]

\* safeCallStream up to cmd.Start(): a pipe or the start fails, and
\* ExecuteStream sends an error and returns; or the process, its stdin
\* goroutine and the two streamOutput goroutines start
StreamCall ==
    /\ ~crashed /\ spc = "call"
    /\ \/ /\ sendEvent(Event("error", "stage failed", 0))
          /\ StreamReturn
          /\ execErr' = TRUE
          /\ UNCHANGED <<runningCmd, proc, rpc, gpc>>
       \/ /\ runningCmd' = TRUE
          /\ proc' = [proc EXCEPT ![stage] = "running"]
          /\ gpc' = [gpc EXCEPT ![stage] = "start"]
          /\ rpc' = [r \in Readers |-> IF r[1] = stage THEN "scan" ELSE rpc[r]]
          /\ spc' = "wait"
          /\ UNCHANGED <<EventChannel, trace, crashed, pc, execErr>>
    /\ UNCHANGED <<gateVars, boxVars, reqVars, jstate, result, ranStage, holding>>
    /\ UNCHANGED <<outputBudget, outputSent, killOnce, chanClosed, stage,
                   stageResult, rlen, nlines>>
    /\ UNCHANGED <<eventBus, closed, peerLog, callVars, pkgVars, waitVars, protoVars, fileVars, calcVars>>
    /\ UNCHANGED <<StdinChannel, nsent, runChunks, took, stdinLog>>

\* the isolate process ends by itself
ProcExit ==
    /\ ~crashed
    /\ \E st \in Stages :
         /\ proc[st] = "running"
         /\ proc' = [proc EXCEPT ![st] = "exited"]
    /\ UNCHANGED coreVars
    /\ UNCHANGED <<outputBudget, outputSent, killOnce, runningCmd, EventChannel,
                   chanClosed, spc, stage, stageResult, rpc, rlen, nlines, trace>>
    /\ UNCHANGED restVars

\* isolate's report of a process it killed at the time limit
TimedOut == [exitCode |-> 1, meta |-> Ptr([status |-> "TO", exitsig |-> Nil, exitcode |-> Nil])]

\* what cmd.Wait and the metadata file give for a process that has ended
WaitOutcomes(p) ==
    IF p = "killed" THEN { [exitCode |-> -1, meta |-> Nil] }
    ELSE FewOutcomes \cup {TimedOut}

\* the process ended by itself with exit code 0: isolate exits with 0 and
\* reports no status and no signal
ExitedClean(out) ==
    /\ out.exitCode = 0
    /\ IsNil(out.meta) \/ (Deref(out.meta).status = "" /\ IsNil(Deref(out.meta).exitsig))

\* safeCallStream from cmd.Wait() on: Wait closes the pipes, runningCmd is
\* cleared, the StageResult is assembled.  A streamOutput goroutine that is
\* in scanner.Scan() gets the end of its pipe and returns.
StreamWait ==
    /\ ~crashed /\ spc = "wait"
    /\ proc[stage] \in {"exited", "killed"}
    /\ \E out \in WaitOutcomes(proc[stage]) :
         /\ stageResult' = Ptr(StageResultOf(out))
         /\ trace' = [trace EXCEPT !.clean = IF ExitedClean(out)
                                             THEN @ \cup {stage} ELSE @]
    /\ proc' = [proc EXCEPT ![stage] = "reaped"]
    /\ rpc' = [r \in Readers |-> IF rpc[r] = "scan" THEN "exit" ELSE rpc[r]]
    /\ runningCmd' = FALSE
    /\ spc' = "end"
    /\ UNCHANGED coreVars
    /\ UNCHANGED <<outputBudget, outputSent, killOnce, EventChannel, chanClosed,
                   stage, rlen, nlines>>
    /\ UNCHANGED restVars

\* "use 0 when code is nil"
StageEndCode(r) == IF IsNil(r.Code) THEN 0 ELSE Deref(r.Code)

\* ExecuteStream after safeCallStream has returned a result: stage_end, and
\* the return after a failed compilation or after the run stage
StreamStageEnd ==
    /\ ~crashed /\ spc = "end"
    /\ sendEvent(Event("stage_end", stage, StageEndCode(Deref(stageResult))))
    /\ IF stage = "compile" /\ ~CompileFailed(Deref(stageResult))
       THEN spc' = "next" /\ UNCHANGED <<pc, jstate>>
       ELSE /\ StreamReturn
            /\ jstate' = [jstate EXCEPT ![StreamJob] =
                            IF stage = "run" THEN "Executed" ELSE @]
    /\ stageResult' = Nil
    /\ UNCHANGED <<gateVars, boxVars, reqVars, result, ranStage, holding>>
    /\ UNCHANGED <<outputBudget, outputSent, killOnce, runningCmd, chanClosed,
                   stage, proc, rpc, rlen, nlines>>
    /\ UNCHANGED restVars

\* ExecuteStream between the stages: the box of the run stage, the move of
\* submission/ into it, and the stage_start of the run stage
StreamNextStage ==
    /\ ~crashed /\ spc = "next"
    /\ \E o \in InitOutcomes, moved \in BOOLEAN :
         /\ createIsolateBox(StreamJob, o)
         /\ IF BoxCreated(o, boxIDCounter') /\ moved
            THEN /\ box' = [box EXCEPT ![StreamJob] = BoxIDOf(boxIDCounter')]
                 /\ stage' = "run"
                 /\ sendEvent(Event("stage_start", "run", 0))
                 /\ spc' = "call"
                 /\ UNCHANGED <<pc, execErr>>
            ELSE /\ sendEvent(Event("error",
                                   IF BoxCreated(o, boxIDCounter')
                                   THEN "failed to move compiled files"
                                   ELSE "failed to create run box", 0))
                 /\ StreamReturn
                 /\ execErr' = TRUE
                 /\ UNCHANGED <<box, stage>>
    /\ UNCHANGED <<gateVars, cleaned, reqVars, jstate, result, ranStage, holding>>
    /\ UNCHANGED <<outputBudget, outputSent, killOnce, runningCmd, chanClosed,
                   stageResult, proc, rpc, rlen, nlines>>
    /\ UNCHANGED <<eventBus, closed, peerLog, offStreamVars>>

\* "defer close(j.EventChannel)": runs after the deferred releaseSlot and
\* before the deferred cleanup
StreamClose ==
    /\ ~crashed /\ spc = "return" /\ pc[StreamJob] = "cleanup"
    /\ chanClosed' = TRUE
    /\ spc' = "closed"
    /\ UNCHANGED coreVars
    /\ UNCHANGED <<outputBudget, outputSent, killOnce, runningCmd, EventChannel,
                   stage, stageResult, proc, rpc, rlen, nlines, trace>>
    /\ UNCHANGED restVars

\* a reader that charges and sends the whole line
LenOfWholeLine(n, remaining) == n

\* len(line[:remaining]) for a line of n bytes, n > remaining
LenOfPrefix(n, remaining) == remaining

\* streamOutput: scanner.Scan() gives a line of n bytes, and the budget is
\* checked and charged with outputMu held
Scan(r) ==
    /\ ~crashed /\ rpc[r] = "scan"
    /\ proc[r[1]] \in {"running", "exited", "killed"}
    /\ nlines < MaxLines
    /\ nlines' = nlines + 1
    /\ \E n \in LineLens :
         IF outputBudget > 0
         THEN LET remaining == outputBudget - outputSent
              IN IF remaining <= 0
                 THEN /\ rpc' = [rpc EXCEPT ![r] = "trigger"]
                      /\ trace' = [trace EXCEPT !.breach = TRUE]
                      /\ UNCHANGED <<outputSent, rlen>>
                 ELSE IF n > remaining
                 THEN /\ outputSent' = outputSent + LenOfPrefix(n, remaining)
                      /\ rlen' = [rlen EXCEPT ![r] = LenOfPrefix(n, remaining)]
                      /\ rpc' = [rpc EXCEPT ![r] = "sendlast"]
                      /\ trace' = [trace EXCEPT !.breach = TRUE]
                 ELSE /\ outputSent' = outputSent + n
                      /\ rlen' = [rlen EXCEPT ![r] = n]
                      /\ rpc' = [rpc EXCEPT ![r] = "send"]
                      /\ UNCHANGED trace
         ELSE /\ rlen' = [rlen EXCEPT ![r] = n]
              /\ rpc' = [rpc EXCEPT ![r] = "send"]
              /\ UNCHANGED <<outputSent, trace>>
    /\ UNCHANGED coreVars
    /\ UNCHANGED <<outputBudget, killOnce, runningCmd, EventChannel, chanClosed,
                   spc, stage, stageResult, proc>>
    /\ UNCHANGED restVars

\* streamOutput: scanner.Scan() returns false at the end of the pipe of a
\* process that has ended
ScanEnd(r) ==
    /\ ~crashed /\ rpc[r] = "scan"
    /\ proc[r[1]] \in {"exited", "killed"}
    /\ rpc' = [rpc EXCEPT ![r] = "exit"]
    /\ UNCHANGED coreVars
    /\ UNCHANGED <<outputBudget, outputSent, killOnce, runningCmd, EventChannel,
                   chanClosed, spc, stage, stageResult, proc, rlen, nlines, trace>>
    /\ UNCHANGED restVars

\* streamOutput: the data event of the line, whole or trimmed; the next
\* scanner.Scan() on a closed pipe returns false
SendData(r) ==
    /\ ~crashed /\ rpc[r] \in {"send", "sendlast"}
    /\ LET e == Event("data", r[2], rlen[r])
       IN sendEventAs(e, RecordData(trace, e, r[1]))
    /\ rpc' = [rpc EXCEPT ![r] = IF rpc[r] = "sendlast" THEN "trigger"
                                ELSE IF proc[r[1]] = "reaped" THEN "exit"
                                ELSE "scan"]
    /\ rlen' = [rlen EXCEPT ![r] = 0]
    /\ UNCHANGED <<gateVars, boxVars, reqVars, pc, jstate, result, ranStage, holding>>
    /\ UNCHANGED <<outputBudget, outputSent, killOnce, runningCmd, chanClosed,
                   spc, stage, stageResult, proc, nlines>>
    /\ UNCHANGED restVars

\* Job.triggerOutputLimitExceeded, then the return of streamOutput: the
\* first call sends the error and kills the running command
triggerOutputLimitExceeded(r) ==
    /\ ~crashed /\ rpc[r] = "trigger"
    /\ rpc' = [rpc EXCEPT ![r] = "exit"]
    /\ IF killOnce
       THEN UNCHANGED <<killOnce, EventChannel, trace, crashed, proc>>
       ELSE /\ killOnce' = TRUE
            /\ sendEvent(OutputLimitExceeded)
            /\ proc' = [st \in Stages |->
                          IF runningCmd /\ st = stage /\ proc[st] = "running"
                          THEN "killed" ELSE proc[st]]
    /\ UNCHANGED <<gateVars, boxVars, reqVars, pc, jstate, result, ranStage, holding>>
    /\ UNCHANGED <<outputBudget, outputSent, runningCmd, chanClosed, spc, stage,
                   stageResult, rlen, nlines>>
    /\ UNCHANGED restVars

\* types.WebSocketMessage: tag is the stage, the stream or the error text,
\* n the exit code of a stage_end
Message(type, tag, n) == [type |-> type, tag |-> tag, n |-> n]

\* handleJobEvent: the message a job event becomes; the text of a data
\* event goes into the message, its length is not looked at again
MessageOf(e) ==
    CASE e.type = "stage_start" -> Message("stage_start", e.tag, 0)
      [] e.type = "stage_end"   -> Message("stage_end", e.tag, e.n)
      [] e.type = "data"        -> Message("data", e.tag, 0)
      [] OTHER                  -> Message("error", e.tag, 0)

\* WebSocketConnection.sendMessage, with wsConn.mutex held: nothing on a
\* closed connection, else a non-blocking send
sendMessage(bus, msg) ==
    IF closed \/ Len(bus) >= EventBusCap THEN bus ELSE Append(bus, msg)

\* executeJob's "for event := range wsConn.job.EventChannel": one event
\* through handleJobEvent
Consume ==
    /\ ~crashed /\ EventChannel # <<>>
    /\ EventChannel' = Tail(EventChannel)
    /\ eventBus' = sendMessage(eventBus, MessageOf(Head(EventChannel)))
    /\ UNCHANGED coreVars
    /\ UNCHANGED <<outputBudget, outputSent, killOnce, runningCmd, chanClosed,
                   spc, stage, stageResult, proc, rpc, rlen, nlines, trace>>
    /\ UNCHANGED <<closed, peerLog, execErr, offStreamVars>>

\* eventSender: the next message of eventBus is written to the peer, which
\* keeps reading; on a closed connection the loop breaks and what is left
\* in eventBus is never written
eventSender ==
    /\ ~crashed /\ ~closed /\ eventBus # <<>>
    /\ peerLog' = Append(peerLog, Head(eventBus))
    /\ eventBus' = Tail(eventBus)
    /\ UNCHANGED <<coreVars, streamVars, closed, execErr, offStreamVars>>

\* executeJob's sendError("Execution failed: ...")
ExecutionFailed == Message("error", "Execution failed", 0)

\* executeJob after ExecuteStream has returned: the error message of a
\* failed execution, and the deferred wsConn.close(4999, "Job Completed")
executeJobReturn ==
    /\ ~crashed /\ ~closed
    /\ spc = "closed" /\ pc[StreamJob] = "done"
    /\ eventBus' = IF execErr
                   THEN sendMessage(eventBus, ExecutionFailed)
                   ELSE eventBus
    /\ closed' = TRUE
    /\ UNCHANGED <<coreVars, streamVars, peerLog, execErr, offStreamVars>>

\* the messages handleInitRaw queues before it starts executeJob
InitMessages == << Message("runtime", "", 0), Message("init_ack", "", 0) >>

\* no streaming session
InitNoSession ==
    /\ eventBus = <<>>
    /\ closed = FALSE
    /\ peerLog = <<>>
    /\ execErr = FALSE

\* ------------------------------------- packages and the runtime registry

\* the packages of the repository: types.Package, language and version
Packages == ({"py"} \X (1..MaxVersion)) \cup {<<"go", 1>>}

\* "aliases" of the pkg-info.json of a package
AliasesOf(language) == IF language = "py" THEN {"python3"} ELSE {}

\* the types.Runtime loadPackage builds for the package in packageDir
RuntimeOf(p) ==
    [language |-> p[1], version |-> p[2], aliases |-> AliasesOf(p[1]), pkgDir |-> p]

\* a service that takes no package for installed
NeverInstalled(p) == FALSE

\* PackageService.IsInstalled: the directory holds .ppman-installed
IsInstalled(p) == disk[p] = "installed"

\* how an install goes on: the step that fails, or a package that is
\* extracted and marked, with or without a pkg-info.json that can be read
InstallOutcomes == {"mkdir", "download", "checksum", "extract", "mark", "noinfo", "ok"}

\* Manager.loadPackage: the runtime of an installed package is appended to
\* runtimes; a pkg-info.json that cannot be read is an error, which
\* InstallPackage logs and ignores
loadPackage(rts, p, readable) ==
    IF readable THEN Append(rts, RuntimeOf(p)) ELSE rts

NoCall == [op |-> "none", pkg |-> <<>>, ok |-> FALSE, err |-> ""]

\* what a call returned: nil, or the error of the step that failed
CallReturned(op, p, err) == [op |-> op, pkg |-> p, ok |-> err = "", err |-> err]

\* the error InstallPackage returns for an outcome
InstallError(o) == IF o \in {"noinfo", "ok"} THEN "" ELSE o

\* PackageService.InstallPackage
InstallPackage(p) ==
    /\ Len(runtimes) < MaxRuntimes
    /\ lookup' = Nil
    /\ pkgSnap' = Ptr([disk |-> disk, langDirs |-> langDirs, runtimes |-> runtimes])
    /\ IF IsInstalled(p)
       THEN /\ pkgLast' = CallReturned("install", p, "already installed")
            /\ UNCHANGED <<disk, langDirs, runtimes>>
       ELSE \E o \in InstallOutcomes :
            /\ disk' = [disk EXCEPT ![p] = CASE o = "mkdir" -> "absent"
                                              [] o \in {"noinfo", "ok"} -> "installed"
                                              [] OTHER -> "partial"]
            /\ langDirs' = IF o = "mkdir" THEN langDirs ELSE langDirs \cup {p[1]}
            /\ runtimes' = IF o \in {"noinfo", "ok"}
                           THEN loadPackage(runtimes, p, o = "ok") ELSE runtimes
            /\ pkgLast' = CallReturned("install", p, InstallError(o))
    /\ UNCHANGED <<coreVars, streamVars, sessionVars, callVars, stdinVars, waitVars, protoVars, fileVars, calcVars>>

\* PackageService.UninstallPackage: os.RemoveAll(installPath), and nothing
\* else; a removal that fails may have removed part of the directory
UninstallPackage(p) ==
    /\ lookup' = Nil
    /\ IF ~IsInstalled(p)
       THEN /\ pkgLast' = CallReturned("uninstall", p, "not installed")
            /\ pkgSnap' = Nil
            /\ UNCHANGED disk
       ELSE \E removed \in BOOLEAN :
            /\ pkgLast' = CallReturned("uninstall", p, IF removed THEN "" ELSE "remove")
            /\ IF removed
               THEN /\ disk' = [disk EXCEPT ![p] = "absent"]
                    /\ pkgSnap' = IF pkgLast = CallReturned("install", p, "")
                                  THEN pkgSnap ELSE Nil
               ELSE /\ disk' \in { [disk EXCEPT ![p] = d] : d \in {"installed", "partial"} }
                    /\ pkgSnap' = Nil
    /\ UNCHANGED <<langDirs, runtimes>>
    /\ UNCHANGED <<coreVars, streamVars, sessionVars, callVars, stdinVars, waitVars, protoVars, fileVars, calcVars>>

\* a runtime that never counts as newer: the first candidate is returned
NeverGreaterThan(a, b) == FALSE

\* semver.Version.GreaterThan
GreaterThan(a, b) == a > b

RECURSIVE LatestOf(_, _)
\* "Find the latest version": the loop over candidates[1:]
LatestOf(latest, rest) ==
    IF rest = <<>> THEN latest
    ELSE LatestOf(IF GreaterThan(Head(rest).version, latest.version)
                  THEN Head(rest) ELSE latest,
                  Tail(rest))

\* whether GetLatestRuntimeMatchingLanguageVersion takes rt as a candidate
IsCandidate(rt, language, version) ==
    /\ rt.language = language \/ language \in rt.aliases
    /\ ConstraintCheck(version, rt.version)

\* GetLatestRuntimeMatchingLanguageVersion over the registry rts: <<>> is
\* the error return
GetLatestRuntimeIn(rts, language, version) ==
    IF ~ConstraintOK(version) THEN Nil
    ELSE LET candidates == SelectSeq(rts, LAMBDA rt : IsCandidate(rt, language, version))
         IN IF Len(candidates) = 0 THEN Nil
            ELSE Ptr(LatestOf(candidates[1], Tail(candidates)))

\* the names and constraints looked up
LookupNames == {"go", "python3", "rb"}
LookupVersions == {"*", "v1", ""}

\* a call of GetLatestRuntimeMatchingLanguageVersion
Lookup(language, version) ==
    /\ lookup' = Ptr([language |-> language, version |-> version,
                      result |-> GetLatestRuntimeIn(runtimes, language, version)])
    /\ UNCHANGED <<disk, langDirs, runtimes, pkgLast, pkgSnap>>
    /\ UNCHANGED <<coreVars, streamVars, sessionVars, callVars, stdinVars, waitVars, protoVars, fileVars, calcVars>>

\* the server after LoadPackages on an empty data directory
InitNoPkg ==
    /\ disk = [p \in Packages |-> "absent"]
    /\ langDirs = {}
    /\ runtimes = <<>>
    /\ pkgLast = NoCall
    /\ pkgSnap = Nil
    /\ lookup = Nil

\* ----------------------------------------- limits and isolate arguments

\* no computation yet
NoCalc == [op |-> "none"]

InitNoCalc == calc = NoCalc

\* the limit names of loadPackage, by the function that computes them
DurationLimitNames == {"compile_timeout", "run_timeout", "compile_cpu_time", "run_cpu_time"}
IntLimitNames == {"max_process_count", "max_open_files", "output_max_size"}
Int64LimitNames == {"compile_memory_limit", "run_memory_limit", "max_file_size"}

\* the process defaults of config.Config, the same number for every name
\* and different from every override
ConfigDefault == 3

\* the numbers an override holds
OverrideNumbers == {1, 2}

\* an interface{} value of a limit_overrides map: its dynamic type and
\* its number (durations in ms like the others, floats without fraction)
TypedValue(type, val) == [type |-> type, val |-> val]

\* what the configuration file can put into Config.LimitOverrides, and
\* the two types only Go code can put there
ConfigValues ==
    { TypedValue(t, v) : t \in {"int", "float64", "string", "duration", "int64"},
                         v \in OverrideNumbers }

\* what json.Unmarshal puts into the limit_overrides of pkg-info.json
PackageValues ==
    { TypedValue(t, v) : t \in {"float64", "string"}, v \in OverrideNumbers }

\* a map without keys
EmptyMap == <<>>

\* the languages of Config.LimitOverrides
OverrideLanguages == {"py", "go"}

\* Config.LimitOverrides with at most one language and one limit name
LimitOverridesOf(name) ==
    {EmptyMap} \cup { l :> (name :> v) : l \in OverrideLanguages, v \in ConfigValues }

\* the limit_overrides of a package with at most one limit name; nil is
\* the empty map here, overrides[limitName] reads both alike
PackageOverridesOf(name) ==
    {EmptyMap} \cup { name :> v : v \in PackageValues }

\* Config.GetLimitOverride: the value, Nil if it does not exist
GetLimitOverride(cfg, language, limitType) ==
    IF language \in DOMAIN cfg /\ limitType \in DOMAIN cfg[language]
    THEN Ptr(cfg[language][limitType])
    ELSE Nil

\* Manager.computeDurationLimit in ms.  The override of the configuration
\* is looked at first, then the package's; Nil if a map does not decide
DurationOfGlobal(g) ==
    IF ~IsNil(g) /\ Deref(g).type \in {"duration", "int"} THEN Ptr(Deref(g).val) ELSE Nil

NumberOfPackage(overrides, limitName) ==
    IF limitName \in DOMAIN overrides /\ overrides[limitName].type \in {"float64", "int"}
    THEN Ptr(overrides[limitName].val) ELSE Nil

\* the first of the three that decides
FirstOf(a, b, c) == IF ~IsNil(a) THEN Deref(a) ELSE IF ~IsNil(b) THEN Deref(b) ELSE c

computeDurationLimit(cfg, language, limitName, overrides, defaultValue) ==
    FirstOf(DurationOfGlobal(GetLimitOverride(cfg, language, limitName)),
            NumberOfPackage(overrides, limitName), defaultValue)

\* Manager.computeIntLimit
IntOfGlobal(g) ==
    IF ~IsNil(g) /\ Deref(g).type = "int" THEN Ptr(Deref(g).val) ELSE Nil

IntDefault(limitName) == IF limitName \in IntLimitNames THEN ConfigDefault ELSE 0

computeIntLimit(cfg, language, limitName, overrides) ==
    FirstOf(IntOfGlobal(GetLimitOverride(cfg, language, limitName)),
            NumberOfPackage(overrides, limitName), IntDefault(limitName))

\* Manager.computeInt64Limit
Int64OfGlobal(g) ==
    IF ~IsNil(g) /\ Deref(g).type \in {"int64", "int"} THEN Ptr(Deref(g).val) ELSE Nil

Int64Default(limitName) == IF limitName \in Int64LimitNames THEN ConfigDefault ELSE -1

computeInt64Limit(cfg, language, limitName, overrides) ==
    FirstOf(Int64OfGlobal(GetLimitOverride(cfg, language, limitName)),
            NumberOfPackage(overrides, limitName), Int64Default(limitName))

\* the limit loadPackage computes for one name of a runtime
ComputedLimit(cfg, language, limitName, overrides) ==
    CASE limitName \in DurationLimitNames ->
             computeDurationLimit(cfg, language, limitName, overrides, ConfigDefault)
      [] limitName \in IntLimitNames -> computeIntLimit(cfg, language, limitName, overrides)
      [] OTHER -> computeInt64Limit(cfg, language, limitName, overrides)

\* loadPackage computing one limit of the runtime of a package
computeLimit(cfg, language, limitName, overrides) ==
    /\ calc = NoCalc
    /\ calc' = [op |-> "limit", cfg |-> cfg, language |-> language, name |-> limitName,
                overrides |-> overrides,
                result |-> ComputedLimit(cfg, language, limitName, overrides)]
    /\ UNCHANGED <<coreVars, streamVars, sessionVars, callVars, stdinVars, pkgVars,
                   waitVars, protoVars, fileVars>>

\* Go's / truncates toward zero
GoQuot(a, b) == IF a >= 0 THEN a \div b ELSE -((-a) \div b)

\* the time budgets of a stage in ms: none, sub-second ones, whole seconds
\* and what lies between, up to one ms above MaxSeconds
Budgets == 0..(1000 * MaxSeconds + 1)

\* the budgets the other limit of the stage takes meanwhile
BudgetSamples == {0, 1, 1000}

\* int(d.Seconds()) for a duration of ms milliseconds
TruncSeconds(ms) == GoQuot(ms, 1000)

\* int(math.Ceil(d.Seconds())) for a duration of ms milliseconds:
\* Seconds() is the whole seconds plus the rest as a fraction
CeilSeconds(ms) ==
    IF GoRem(ms, 1000) > 0 THEN GoQuot(ms, 1000) + 1 ELSE GoQuot(ms, 1000)

\* the number of --wall-time / --time: "Round sub-second timeouts up to 1s"
TimeArg(ms) ==
    IF ms > 0 /\ CeilSeconds(ms) = 0 THEN 1 ELSE CeilSeconds(ms)

\* safeCall / safeCallStream building the arguments of isolate --run for a
\* stage with the limits timeout and cpuTime
isolateArgs(timeout, cpuTime) ==
    /\ calc = NoCalc
    /\ calc' = [op |-> "isolate", timeout |-> timeout, cpuTime |-> cpuTime,
                wt |-> TimeArg(timeout), ct |-> TimeArg(cpuTime)]
    /\ UNCHANGED <<coreVars, streamVars, sessionVars, callVars, stdinVars, pkgVars,
                   waitVars, protoVars, fileVars>>

\* values of boxIDCounter before a call of createIsolateBox: the first
\* calls of the process, around MaxBoxID, and around the ends of int32
BoxCounters ==
    (0..(MaxBoxID + 1)) \cup {2147483646, 2147483647, -2147483647 - 1, -2, -1}

\* createIsolateBox up to the ID of the new box: the counter after
\* atomic.AddInt32 and the ID made of it
nextBoxID(counter) ==
    /\ calc = NoCalc
    /\ calc' = [op |-> "box", counter |-> counter, next |-> AddInt32(counter, 1),
                id |-> BoxIDOf(AddInt32(counter, 1))]
    /\ UNCHANGED <<coreVars, streamVars, sessionVars, callVars, stdinVars, pkgVars,
                   waitVars, protoVars, fileVars>>

\* ------------------------------------------------ the files prime writes

\* the characters of a file name: a letter, the dot and the separator
NameChars == {"a", ".", "/"}

\* the file names of a request; NewJob replaces an empty name
FileNames == UNION { [1..n -> NameChars] : n \in 1..MaxNameLen }

\* strings.Contains(name, "..")
ContainsDotDot(name) ==
    \E i \in 1..(Len(name) - 1) : name[i] = "." /\ name[i + 1] = "."

RECURSIVE SplitPath(_, _)
\* the elements of a path between its separators, empty ones included;
\* cur is the element read so far
SplitPath(name, cur) ==
    IF name = <<>> THEN <<cur>>
    ELSE IF Head(name) = "/" THEN <<cur>> \o SplitPath(Tail(name), <<>>)
    ELSE SplitPath(Tail(name), Append(cur, Head(name)))

RECURSIVE CleanOnto(_, _)
\* filepath.Clean of a rooted path, element by element: empty elements and
\* "." go, ".." takes the element before it with it and stays at the root
CleanOnto(done, elems) ==
    IF elems = <<>> THEN done
    ELSE LET e == Head(elems)
         IN CleanOnto(CASE e = <<>> \/ e = <<".">> -> done
                         [] e = <<".", ".">> ->
                              IF done = <<>> THEN done ELSE SubSeq(done, 1, Len(done) - 1)
                         [] OTHER -> Append(done, e),
                      Tail(elems))

\* box.Dir + "/submission", as the elements of the path
SubmissionDir == << <<"b">>, <<"s">> >>

\* filepath.Join(submissionDir, name)
JoinSubmission(name) == CleanOnto(SubmissionDir, SplitPath(name, <<>>))

\* whether a path lies in the directory dir or is dir itself
Inside(dir, path) ==
    Len(path) >= Len(dir) /\ SubSeq(path, 1, Len(dir)) = dir

\* strings.HasPrefix(relPath, "..") for relPath = filepath.Rel(dir, path):
\* the path is not below dir, or its first element below dir starts with ".."
RelStartsWithDotDot(dir, path) ==
    \/ ~Inside(dir, path)
    \/ /\ Len(path) > Len(dir)
       /\ Len(path[Len(dir) + 1]) >= 2
       /\ SubSeq(path[Len(dir) + 1], 1, 2) = <<".", ".">>

\* whether some directory on the way to path (below dir) is a file of t
FileInTheWay(t, path) ==
    \E n \in 1..(Len(path) - 1) : SubSeq(path, 1, n) \in t

\* whether path is a directory: the submission directory or a directory
\* of a file of t
IsDirectory(t, path) ==
    \/ path = SubmissionDir
    \/ \E f \in t : Len(f) > Len(path) /\ SubSeq(f, 1, Len(path)) = path

\* the error Job.writeFile returns for a file name, "" for nil; decodes
\* tells whether the content decodes in its encoding
writeFileError(t, name, decodes) ==
    LET filePath == JoinSubmission(name)
    IN IF ContainsDotDot(name) THEN "invalid file name"
       ELSE IF RelStartsWithDotDot(SubmissionDir, filePath) THEN "path traversal detected"
       ELSE IF ~decodes THEN "failed to decode content"
       ELSE IF FileInTheWay(t, filePath) THEN "failed to create directory"
       ELSE IF IsDirectory(t, filePath) THEN "failed to write file"
       ELSE ""

\* prime: the next file of the job goes through writeFile; the first
\* error ends prime
writeFile(name, decodes) ==
    /\ nwritten < MaxFiles
    /\ flast.err = ""
    /\ nwritten' = nwritten + 1
    /\ LET err == writeFileError(tree, name, decodes)
       IN /\ flast' = [name |-> name, err |-> err, path |-> JoinSubmission(name)]
          /\ tree' = IF err = "" THEN tree \cup {JoinSubmission(name)} ELSE tree
    /\ UNCHANGED <<coreVars, streamVars, sessionVars, callVars, stdinVars, pkgVars,
                   waitVars, protoVars, calcVars>>

\* a box with an empty submission directory
InitNoFiles ==
    /\ tree = {}
    /\ nwritten = 0
    /\ flast = [name |-> <<>>, err |-> "", path |-> <<>>]

\* ------------------------------------- the messages of a streaming peer

\* the init requests a peer sends: one for an installed runtime, one for a
\* language that is not installed
ProtoRequests ==
    { MkRequest("stream", "py", "*", <<FileOK>>, NoOverride),
      MkRequest("stream", "rust", "*", <<FileOK>>, NoOverride) }

\* a handleSignal that takes every name for valid
AnySignalName == {"SIGTERM", "SIGKILL", "SIGINT", "SIGHUP", ""}

\* validSignals of handleSignal
ValidSignals == {"SIGTERM", "SIGKILL", "SIGINT"}

\* the signal names a peer sends
SignalNames == ValidSignals \cup {"SIGHUP", ""}

\* the messages of a peer: the type, and the field the handler looks at
ClientMessages ==
    { [type |-> "init", arg |-> r] : r \in ProtoRequests }
    \cup { [type |-> "data", arg |-> st] : st \in {"stdin", "stdout"} }
    \cup { [type |-> "signal", arg |-> sg] : sg \in SignalNames }
    \cup { [type |-> "ping", arg |-> ""] }

ErrorMessage(text) == Message("error", text, 0)

RECURSIVE sendMessages(_, _)
\* sendMessage for each message of msgs in turn
sendMessages(bus, msgs) ==
    IF msgs = <<>> THEN bus
    ELSE sendMessages(sendMessage(bus, Head(msgs)), Tail(msgs))

\* wsConn.close(code, ...): the first call closes, every later one returns
CloseWith(code) ==
    /\ closed' = TRUE
    /\ closeCode' = IF closed THEN closeCode ELSE code

\* how a handler leaves the connection: what it has queued, the close code
\* of its wsConn.close (0: none), and whether handleMessages returns, which
\* runs the deferred close(1000)
Outcome(bus, code, ret) ==
    /\ eventBus' = bus
    /\ hret' = ret
    /\ IF code # 0 THEN CloseWith(code)
       ELSE IF ret THEN CloseWith(1000)
       ELSE UNCHANGED <<closed, closeCode>>

\* a handler that returned err: handleMessages sends err.Error() and returns
Failed(bus, text) == Outcome(sendMessage(bus, ErrorMessage(text)), 0, TRUE)

\* an init that is let through although the connection has a job
InitNeverRefused == FALSE

\* handleInitRaw: "if wsConn.job != nil"
AlreadyInitialized == wsJob # 0

\* what handleInitRaw sends for a request that reaches buildJobRequestFromMap
InitReplies(r) ==
    LET rt == GetLatestRuntimeMatchingLanguageVersion(r.language, r.version)
        verr == IF WsValidateSendsError(r) THEN <<ErrorMessage("validation")>> ELSE <<>>
    IN IF buildJobRequestFromMapErr(r) THEN <<ErrorMessage("bad request")>>
       ELSE IF WsValidateJobRequest(r) THEN verr
       ELSE IF IsNil(rt) THEN verr \o <<ErrorMessage("Runtime not found")>>
       ELSE verr \o InitMessages

\* whether handleInitRaw gets as far as NewJob
InitAccepted(r) ==
    /\ ~buildJobRequestFromMapErr(r)
    /\ ~WsValidateJobRequest(r)
    /\ ~IsNil(GetLatestRuntimeMatchingLanguageVersion(r.language, r.version))

\* handleInitRaw on a connection: close(4000) if there is a job; else the
\* request is built, validated and its runtime looked up, every failure
\* being sent as an error and returned as nil; else NewJob, runtime,
\* init_ack and go executeJob
wsHandleInitRaw(r) ==
    IF AlreadyInitialized
    THEN /\ Outcome(eventBus, 4000, FALSE)
         /\ UNCHANGED <<wsJob, jobsMade, phase, StdinChannel, signalled>>
    ELSE /\ Outcome(sendMessages(eventBus, InitReplies(r)), 0, FALSE)
         /\ IF InitAccepted(r)
            THEN /\ wsJob' = jobsMade + 1
                 /\ jobsMade' = jobsMade + 1
                 /\ phase' = "started"
            ELSE UNCHANGED <<wsJob, jobsMade, phase>>
         /\ UNCHANGED <<StdinChannel, signalled>>

\* a data or signal message that is let through although there is no job
DataNeverRefused == FALSE

\* handleData, handleSignal: "if wsConn.job == nil"
NotYetInitialized == wsJob = 0

\* handleData on a connection: close(4003) without a job, close(4004) for
\* a stream other than stdin, else Job.WriteStdin, whose error is sent by
\* handleData and again by handleMessages
wsHandleData(stream) ==
    /\ IF NotYetInitialized THEN Outcome(eventBus, 4003, FALSE) /\ UNCHANGED StdinChannel
       ELSE IF stream # "stdin" THEN Outcome(eventBus, 4004, FALSE) /\ UNCHANGED StdinChannel
       ELSE IF Len(StdinChannel) < StdinChannelCap
       THEN /\ StdinChannel' = Append(StdinChannel, nmsg + 1)
            /\ Outcome(eventBus, 0, FALSE)
       ELSE /\ Failed(sendMessage(eventBus, ErrorMessage("Failed to write to stdin")),
                      "stdin channel full")
            /\ UNCHANGED StdinChannel
    /\ UNCHANGED <<wsJob, jobsMade, phase, signalled>>

\* the switch of Job.SendSignal: the names it has a signal for
SendSignalKnows(name) == name \in {"SIGTERM", "SIGKILL", "SIGINT"}

\* handleSignal on a connection: close(4003) without a job, close(4005)
\* for a name that is not in validSignals, else Job.SendSignal, which needs
\* a running process and a name it knows
handleSignal(name) ==
    /\ IF NotYetInitialized THEN Outcome(eventBus, 4003, FALSE) /\ UNCHANGED signalled
       ELSE IF name \notin ValidSignals THEN Outcome(eventBus, 4005, FALSE) /\ UNCHANGED signalled
       ELSE IF phase # "running"
       THEN /\ Failed(sendMessage(eventBus, ErrorMessage("no running process")),
                      "no running process")
            /\ UNCHANGED signalled
       ELSE IF ~SendSignalKnows(name)
       THEN /\ Failed(sendMessage(eventBus, ErrorMessage("invalid signal")), "invalid signal")
            /\ UNCHANGED signalled
       ELSE /\ signalled' = signalled \cup {name}
            /\ Outcome(eventBus, 0, FALSE)
    /\ UNCHANGED <<wsJob, jobsMade, phase, StdinChannel>>

\* the default case of handleMessages: sendError and continue
unknownType ==
    /\ Outcome(sendMessage(eventBus, ErrorMessage("Unknown message type")), 0, FALSE)
    /\ UNCHANGED <<wsJob, jobsMade, phase, StdinChannel, signalled>>

\* the frame of the actions of a streaming peer's connection
protoFrame == <<coreVars, streamVars, callVars, pkgVars, waitVars, fileVars, calcVars, peerLog, execErr,
                nsent, runChunks, gpc, took, stdinLog>>

\* handleMessages: one turn of its loop, from ReadMessage on an open
\* connection to the end of the handler of the message
handleMessages ==
    /\ ~crashed /\ ~hret /\ ~closed
    /\ nmsg < MaxMessages
    /\ nmsg' = nmsg + 1
    /\ \E m \in ClientMessages :
         /\ CASE m.type = "init"   -> wsHandleInitRaw(m.arg)
              [] m.type = "data"   -> wsHandleData(m.arg)
              [] m.type = "signal" -> handleSignal(m.arg)
              [] OTHER             -> unknownType
         /\ last' = [type |-> m.type, arg |-> m.arg, prev |-> last.type,
                     jobBefore |-> wsJob, madeBefore |-> jobsMade,
                     stdinBefore |-> StdinChannel, sigBefore |-> signalled,
                     answered |-> eventBus' # eventBus,
                     open |-> ~closed' /\ ~hret']
    /\ UNCHANGED timer
    /\ UNCHANGED protoFrame

\* handleMessages: ReadMessage fails, because the connection has been
\* closed or the peer has gone; the loop breaks and the deferred
\* close(1000) runs
handleMessagesReturn ==
    /\ ~crashed /\ ~hret
    /\ hret' = TRUE
    /\ CloseWith(1000)
    /\ UNCHANGED <<eventBus, wsJob, jobsMade, phase, signalled, nmsg, timer, last,
                   StdinChannel>>
    /\ UNCHANGED protoFrame

\* the goroutine of HandleWebSocket that waits for initTimeout: without a
\* job it sends an error and closes with 4001
initTimeout ==
    /\ ~crashed /\ ~timer /\ ~hret
    /\ timer' = TRUE
    /\ IF wsJob = 0
       THEN /\ eventBus' = sendMessage(eventBus, ErrorMessage("Initialization timeout"))
            /\ CloseWith(4001)
       ELSE UNCHANGED <<eventBus, closed, closeCode>>
    /\ UNCHANGED <<wsJob, jobsMade, phase, signalled, nmsg, hret, last, StdinChannel>>
    /\ UNCHANGED protoFrame

\* safeCallStream: cmd.Start() and j.runningCmd = cmd
JobProcStart ==
    /\ ~crashed /\ phase = "started"
    /\ phase' = "running"
    /\ UNCHANGED <<eventBus, closed, closeCode, wsJob, jobsMade, signalled, nmsg, hret,
                   timer, last, StdinChannel>>
    /\ UNCHANGED protoFrame

\* safeCallStream: cmd.Wait() has returned and j.runningCmd = nil; the
\* stdin goroutine has taken what was in StdinChannel
JobProcEnd ==
    /\ ~crashed /\ phase = "running"
    /\ phase' = "ended"
    /\ StdinChannel' = <<>>
    /\ UNCHANGED <<eventBus, closed, closeCode, wsJob, jobsMade, signalled, nmsg, hret,
                   timer, last>>
    /\ UNCHANGED protoFrame

\* executeJob: ExecuteStream has returned, the deferred close(4999) runs
executeJobDone ==
    /\ ~crashed /\ phase = "ended"
    /\ phase' = "over"
    /\ CloseWith(4999)
    /\ UNCHANGED <<eventBus, wsJob, jobsMade, signalled, nmsg, hret, timer, last,
                   StdinChannel>>
    /\ UNCHANGED protoFrame

NoMessage == [type |-> "none", arg |-> "", prev |-> "none", jobBefore |-> 0,
              madeBefore |-> 0, stdinBefore |-> <<>>, sigBefore |-> {},
              answered |-> FALSE, open |-> TRUE]

\* a connection HandleWebSocket has just set up, or none
InitNoProto ==
    /\ wsJob = 0
    /\ jobsMade = 0
    /\ closeCode = 0
    /\ phase = "none"
    /\ signalled = {}
    /\ nmsg = 0
    /\ hret = FALSE
    /\ timer = FALSE
    /\ last = NoMessage

\* ------------------------------------------- the stdin of a streaming job

\* the initial payload in the record of what a process got on its stdin
Initial == 0

\* handleData's two reports of a chunk WriteStdin did not take: its own
\* and the one handleMessages sends for the error it returns
StdinFull == Message("error", "stdin channel full", 0)

\* a data message of the peer: handleData and Job.WriteStdin, a
\* non-blocking send.  A chunk that finds the channel full is not accepted;
\* handleMessages reports the error and returns, which closes the connection.
handleData ==
    /\ ~crashed /\ ~closed
    /\ created[StreamJob]
    /\ nsent < MaxChunks
    /\ nsent' = nsent + 1
    /\ IF Len(StdinChannel) < StdinChannelCap
       THEN /\ StdinChannel' = Append(StdinChannel, nsent + 1)
            /\ runChunks' = IF proc["run"] = "running"
                            THEN Append(runChunks, nsent + 1) ELSE runChunks
            /\ UNCHANGED <<eventBus, closed>>
       ELSE /\ eventBus' = sendMessage(sendMessage(eventBus, StdinFull), StdinFull)
            /\ closed' = TRUE
            /\ UNCHANGED <<StdinChannel, runChunks>>
    /\ UNCHANGED <<coreVars, streamVars, peerLog, execErr, callVars, pkgVars, waitVars, protoVars, fileVars, calcVars,
                   gpc, took, stdinLog>>

\* whether a write to the stdin pipe of the process of stage st arrives:
\* cmd.Wait() closes the pipe
PipeOpen(st) == proc[st] \in {"running", "exited", "killed"}

\* the stdin goroutine of safeCallStream: the initial stdin, if any
StdinStart(st) ==
    /\ ~crashed /\ gpc[st] = "start"
    /\ gpc' = [gpc EXCEPT ![st] = "loop"]
    /\ stdinLog' = IF jobStdin # <<>> /\ PipeOpen(st)
                   THEN [stdinLog EXCEPT ![st] = Append(@, Initial)]
                   ELSE stdinLog
    /\ UNCHANGED <<coreVars, streamVars, sessionVars, callVars, pkgVars, waitVars, protoVars, fileVars, calcVars,
                   StdinChannel, nsent, runChunks, took>>

\* the stdin goroutine of safeCallStream: "case data, ok := <-j.StdinChannel",
\* and the write of the chunk to the pipe of its own process
StdinRecv(st) ==
    /\ ~crashed /\ gpc[st] = "loop"
    /\ StdinChannel # <<>>
    /\ StdinChannel' = Tail(StdinChannel)
    /\ took' = [took EXCEPT ![st] = Append(@, Head(StdinChannel))]
    /\ stdinLog' = IF PipeOpen(st)
                   THEN [stdinLog EXCEPT ![st] = Append(@, Head(StdinChannel))]
                   ELSE stdinLog
    /\ UNCHANGED <<coreVars, streamVars, sessionVars, callVars, pkgVars, waitVars, protoVars, fileVars, calcVars,
                   nsent, runChunks, gpc>>

\* the stdin goroutine of safeCallStream: "case <-ctx.Done()"; the context
\* of the request is cancelled when the handler of the connection returns
StdinCtxDone(st) ==
    /\ ~crashed /\ gpc[st] = "loop"
    /\ closed
    /\ gpc' = [gpc EXCEPT ![st] = "exit"]
    /\ UNCHANGED <<coreVars, streamVars, sessionVars, callVars, pkgVars, waitVars, protoVars, fileVars, calcVars,
                   StdinChannel, nsent, runChunks, took, stdinLog>>

\* no stdin goroutine, no chunk
InitNoStdin ==
    /\ StdinChannel = <<>>
    /\ nsent = 0
    /\ runChunks = <<>>
    /\ gpc = [st \in Stages |-> "none"]
    /\ took = [st \in Stages |-> <<>>]
    /\ stdinLog = [st \in Stages |-> <<>>]

\* ------------------------------------------------- one safeCall in detail

\* the bytes of a stdin string
Chars == {"a", "\n"}

\* the stdin strings of a request: with and without a newline at the end
StdinValues == UNION { [1..n -> Chars] : n \in 0..MaxStdinLen }

\* a job that gives every stdin a newline at its end
StdinWithNewline(stdin) ==
    IF stdin # <<>> /\ stdin[Len(stdin)] = "\n" THEN stdin ELSE stdin \o <<"\n">>

\* NewJob: "Preserve stdin exactly as provided (no implicit newline)"
StdinOfRequest(stdin) == stdin

\* a line the process writes is its length with the "\n" readWithLimit
\* gives it: scanner.Text() + "\n"
LineBytes == 1..2

RECURSIVE SumSeq(_)
SumSeq(q) == IF q = <<>> THEN 0 ELSE Head(q) + SumSeq(Tail(q))

\* readWithLimit on one line: the line is kept if the buffer stays within
\* OutputMaxSize
Fits(b, line) == SumSeq(b) + line <= outputMaxSize

\* stdoutBuf, stderrBuf and the outputBuf both readers write to
Buffers == Streams \cup {"output"}

\* the other stream
OtherStream(st) == IF st = "stdout" THEN "stderr" ELSE "stdout"

\* outputBuf.WriteString(line): the two readers write to outputBuf
\* without a lock, so while the other reader runs the write may be lost
\* to a write of the other at the same time
OutputWrites(st, line) ==
    {Append(buf["output"], line)} \cup
    (IF creader[OtherStream(st)] = "scan" THEN {buf["output"]} ELSE {})

\* the process writes a line to a stream
ProcWrite(st) ==
    /\ cproc = "running"
    /\ Len(wrote["stdout"]) + Len(wrote["stderr"]) < MaxLines
    /\ \E line \in LineBytes :
         /\ pipe' = [pipe EXCEPT ![st] = Append(@, line)]
         /\ wrote' = [wrote EXCEPT ![st] = Append(@, line)]
    /\ UNCHANGED <<reqStdin, jobStdin, procStdin, stdinState, outputMaxSize, cproc,
                   buf, creader, callResult>>
    /\ UNCHANGED <<coreVars, streamVars, sessionVars, stdinVars, pkgVars, waitVars, protoVars, fileVars, calcVars>>

\* the process ends; what it wrote stays in the pipes
CallProcExit ==
    /\ cproc = "running"
    /\ cproc' = "exited"
    /\ UNCHANGED <<reqStdin, jobStdin, procStdin, stdinState, outputMaxSize,
                   pipe, wrote, buf, creader, callResult>>
    /\ UNCHANGED <<coreVars, streamVars, sessionVars, stdinVars, pkgVars, waitVars, protoVars, fileVars, calcVars>>

\* safeCall's stdin goroutine: j.Stdin, if not empty, and stdin.Close();
\* once cmd.Wait() has closed the pipe the write fails
StdinWrite ==
    /\ stdinState = "start"
    /\ IF cproc = "reaped"
       THEN stdinState' = "failed" /\ UNCHANGED procStdin
       ELSE /\ stdinState' = "closed"
            /\ procStdin' = IF jobStdin # <<>> THEN procStdin \o jobStdin
                            ELSE procStdin
    /\ UNCHANGED <<reqStdin, jobStdin, outputMaxSize, cproc, pipe, wrote, buf,
                   creader, callResult>>
    /\ UNCHANGED <<coreVars, streamVars, sessionVars, stdinVars, pkgVars, waitVars, protoVars, fileVars, calcVars>>

\* readWithLimit: scanner.Scan() gives the next line, which is kept if it
\* fits; the first line that does not fit ends the reader
CallRead(st) ==
    /\ creader[st] = "scan" /\ pipe[st] # <<>>
    /\ pipe' = [pipe EXCEPT ![st] = Tail(@)]
    /\ IF Fits(buf[st], Head(pipe[st]))
       THEN /\ \E out \in OutputWrites(st, Head(pipe[st])) :
                 buf' = [buf EXCEPT ![st] = Append(@, Head(pipe[st])), !["output"] = out]
            /\ UNCHANGED creader
       ELSE creader' = [creader EXCEPT ![st] = "exit"] /\ UNCHANGED buf
    /\ UNCHANGED <<reqStdin, jobStdin, procStdin, stdinState, outputMaxSize, cproc,
                   wrote, callResult>>
    /\ UNCHANGED <<coreVars, streamVars, sessionVars, stdinVars, pkgVars, waitVars, protoVars, fileVars, calcVars>>

\* readWithLimit: scanner.Scan() returns false, at the end of the output
\* of a process that has ended or on the pipe cmd.Wait() has closed
CallReadEnd(st) ==
    /\ creader[st] = "scan"
    /\ \/ cproc = "exited" /\ pipe[st] = <<>>
       \/ cproc = "reaped"
    /\ creader' = [creader EXCEPT ![st] = "exit"]
    /\ UNCHANGED <<reqStdin, jobStdin, procStdin, stdinState, outputMaxSize, cproc,
                   pipe, wrote, buf, callResult>>
    /\ UNCHANGED <<coreVars, streamVars, sessionVars, stdinVars, pkgVars, waitVars, protoVars, fileVars, calcVars>>

\* safeCall: cmd.Wait() returns when the process has ended and closes the
\* pipes; it waits for no goroutine of safeCall
CallWait ==
    /\ cproc = "exited"
    /\ cproc' = "reaped"
    /\ UNCHANGED <<reqStdin, jobStdin, procStdin, stdinState, outputMaxSize,
                   pipe, wrote, buf, creader, callResult>>
    /\ UNCHANGED <<coreVars, streamVars, sessionVars, stdinVars, pkgVars, waitVars, protoVars, fileVars, calcVars>>

\* safeCall after cmd.Wait(): the StageResult takes stdoutBuf.String(),
\* stderrBuf.String() and outputBuf.String() as they are at that moment
CallAssemble ==
    /\ cproc = "reaped" /\ IsNil(callResult)
    /\ callResult' = Ptr([Stdout |-> buf["stdout"], Stderr |-> buf["stderr"],
                           Output |-> buf["output"]])
    /\ UNCHANGED <<reqStdin, jobStdin, procStdin, stdinState, outputMaxSize, cproc,
                   pipe, wrote, buf, creader>>
    /\ UNCHANGED <<coreVars, streamVars, sessionVars, stdinVars, pkgVars, waitVars, protoVars, fileVars, calcVars>>

\* no safeCall looked at in detail
InitNoCall ==
    /\ reqStdin = <<>>
    /\ jobStdin = <<>>
    /\ procStdin = <<>>
    /\ stdinState = "none"
    /\ outputMaxSize = 0
    /\ cproc = "none"
    /\ pipe = [st \in Streams |-> <<>>]
    /\ wrote = [st \in Streams |-> <<>>]
    /\ buf = [b \in Buffers |-> <<>>]
    /\ creader = [st \in Streams |-> "none"]
    /\ callResult = Nil

\* every ExecuteStream-detail variable at rest
InitNoStream ==
    /\ outputBudget = 0
    /\ outputSent = 0
    /\ killOnce = FALSE
    /\ runningCmd = FALSE
    /\ EventChannel = <<>>
    /\ chanClosed = FALSE
    /\ spc = "idle"
    /\ stage = "none"
    /\ stageResult = Nil
    /\ proc = [st \in Stages |-> "none"]
    /\ rpc = [r \in Readers |-> "none"]
    /\ rlen = [r \in Readers |-> 0]
    /\ nlines = 0
    /\ trace = NoTrace

\* ---------------------------------------------------------- specifications

vars == <<coreVars, streamVars, restVars>>

\* nobody waits, no context is cancelled
InitNoWaitOf(J) ==
    /\ fifo = [waiters |-> {}, ahead |-> [j \in J |-> {}], passed |-> {}]
    /\ ctxDone = [j \in J |-> FALSE]

InitNoWait == InitNoWaitOf(Jobs)

InitJobsOf(J) ==
    /\ boxIDCounter = 0
    /\ queueMutex = 0
    /\ condQueue = <<>>
    /\ pc = [j \in J |-> "idle"]
    /\ req = [j \in J |-> NoRequest]
    /\ job = [j \in J |-> NoJob]
    /\ created = [j \in J |-> FALSE]
    /\ jstate = [j \in J |-> "none"]
    /\ dirtyBoxes = [j \in J |-> <<>>]
    /\ box = [j \in J |-> -1]
    /\ result = [j \in J |-> NoResult]
    /\ response = [j \in J |-> NoResponse]
    /\ wsSent = [j \in J |-> <<>>]
    /\ liveBoxes = {}
    /\ allocated = [j \in J |-> {}]
    /\ cleaned = [j \in J |-> {}]
    /\ ranStage = [j \in J |-> {}]
    /\ holding = [j \in J |-> FALSE]
    /\ crashed = FALSE

InitJobs == InitJobsOf(Jobs)

\* NewManager: atomic.StoreInt32(&remainingSlots, int32(cfg.MaxConcurrentJobs))
Init ==
    /\ maxJobs = MaxConcurrentJobs
    /\ remainingSlots = maxJobs
    /\ InitJobs
    /\ InitNoStream
    /\ InitNoSession
    /\ InitNoCall
    /\ InitNoStdin
    /\ InitNoPkg
    /\ InitNoWait
    /\ InitNoProto
    /\ InitNoFiles
    /\ InitNoCalc

\* the requests of Spec: a compiled synchronous one and an interpreted
\* streaming one
GateRequests ==
    { MkRequest("sync", "go", "*", <<FileOK>>, NoOverride),
      MkRequest("stream", "py", "*", <<FileOK>>, NoOverride) }

Next ==
    \E j \in Jobs :
        \/ \E r \in GateRequests : ExecuteCode(j, r)
        \/ \E r \in GateRequests : handleInitRaw(j, r)
        \/ WaitLock(j)
        \/ WaitEnqueue(j)
        \/ WaitWake(j)
        \/ Prime(j)
        \/ Compile(j, FewOutcomes)
        \/ RunBox(j)
        \/ Run(j, FewOutcomes)
        \/ releaseSlot(j)
        \/ Cleanup(j)

Spec == Init /\ [][Next]_vars

\* One streaming connection from HandleWebSocket on: the messages of the
\* peer, the initialization timer, the sender of the queued messages and
\* the process of the job.
NextProto ==
    \/ handleMessages
    \/ handleMessagesReturn
    \/ initTimeout
    \/ eventSender
    \/ JobProcStart
    \/ JobProcEnd
    \/ executeJobDone

SpecProto == Init /\ [][NextProto]_vars

\* prime writing the files of one job into its box
NextFiles == \E name \in FileNames, decodes \in BOOLEAN : writeFile(name, decodes)

SpecFiles == Init /\ [][NextFiles]_vars

\* one computation of loadPackage or of safeCall, on every input
NextCalc ==
    \/ \E name \in DurationLimitNames \cup IntLimitNames \cup Int64LimitNames,
          language \in OverrideLanguages :
          \E cfg \in LimitOverridesOf(name), overrides \in PackageOverridesOf(name) :
              computeLimit(cfg, language, name, overrides)
    \/ \E timeout \in Budgets, cpuTime \in BudgetSamples : isolateArgs(timeout, cpuTime)
    \/ \E timeout \in BudgetSamples, cpuTime \in Budgets : isolateArgs(timeout, cpuTime)
    \/ \E counter \in BoxCounters : nextBoxID(counter)

SpecCalc == Init /\ [][NextCalc]_vars

\* the callers of SpecGate: one more than the requests of Spec, so that one
\* can hold the slot, one wait for it and one arrive after that
GateJobs == 1..(NJobs + 1)

InitGate ==
    /\ maxJobs = MaxConcurrentJobs
    /\ remainingSlots = maxJobs
    /\ InitJobsOf(GateJobs)
    /\ InitNoStream
    /\ InitNoSession
    /\ InitNoCall
    /\ InitNoStdin
    /\ InitNoPkg
    /\ InitNoWaitOf(GateJobs)
    /\ InitNoProto
    /\ InitNoFiles
    /\ InitNoCalc

\* the request of SpecGate
GateRequest == MkRequest("sync", "py", "*", <<FileOK>>, NoOverride)

\* how the run stage of a request of SpecGate ends
GateOutcomes == { [exitCode |-> 0, meta |-> Ptr([status |-> "", exitsig |-> Nil, exitcode |-> Nil])] }

\* Callers that come and go at the gate; a caller can disconnect while its
\* job waits.
NextGate ==
    \E j \in GateJobs :
        \/ ExecuteCode(j, GateRequest)
        \/ WaitLock(j)
        \/ WaitEnqueue(j)
        \/ WaitWake(j)
        \/ Prime(j)
        \/ Run(j, GateOutcomes)
        \/ releaseSlot(j)
        \/ Cleanup(j)
        \/ Disconnect(j)

SpecGate == InitGate /\ [][NextGate]_vars

\* One request, of every shape, with every stage outcome.  With a
\* single caller waitForSlot never parks.
NextHandler ==
    LET j == 1
    IN \/ \E r \in AllRequests : ExecuteCode(j, r)
       \/ \E r \in AllRequests : handleInitRaw(j, r)
       \/ WaitLock(j)
       \/ Prime(j)
       \/ Compile(j, AllOutcomes)
       \/ RunBox(j)
       \/ Run(j, AllOutcomes)
       \/ releaseSlot(j)
       \/ Cleanup(j)

SpecHandler == Init /\ [][NextHandler]_vars

\* the streaming request whose run stage is still going on in InitWrap
LongRequest == MkRequest("stream", "py", "*", <<FileOK>>, NoOverride)

\* The core state in which request 1 is r, its job has come back from prime
\* with the first box of the process (counter value 1) and holds a slot of
\* `slots`, and every box allocated since has been cleaned up, the counter
\* being at `counter`.
PrimedCore(r, counter, slots, at) ==
    /\ maxJobs = slots
    /\ remainingSlots = maxJobs - 1
    /\ boxIDCounter = counter
    /\ queueMutex = 0
    /\ condQueue = <<>>
    /\ pc = [j \in Jobs |-> IF j = 1 THEN at ELSE "idle"]
    /\ req = [j \in Jobs |-> IF j = 1 THEN r ELSE NoRequest]
    /\ job = [j \in Jobs |->
                IF j = 1
                THEN NewJob(Deref(GetLatestRuntimeMatchingLanguageVersion(
                                      r.language, r.version)), r)
                ELSE NoJob]
    /\ created = [j \in Jobs |-> j = 1]
    /\ jstate = [j \in Jobs |-> IF j = 1 THEN "Primed" ELSE "none"]
    /\ dirtyBoxes = [j \in Jobs |-> IF j = 1 THEN <<BoxIDOf(1)>> ELSE <<>>]
    /\ box = [j \in Jobs |-> IF j = 1 THEN BoxIDOf(1) ELSE -1]
    /\ result = [j \in Jobs |-> NoResult]
    /\ response = [j \in Jobs |-> NoResponse]
    /\ wsSent = [j \in Jobs |-> IF j = 1 THEN <<"runtime", "init_ack">> ELSE <<>>]
    /\ liveBoxes = {MkBox(1, 1)}
    /\ allocated = [j \in Jobs |-> IF j = 1 THEN {MkBox(1, 1)} ELSE {}]
    /\ cleaned = [j \in Jobs |-> {}]
    /\ ranStage = [j \in Jobs |-> {}]
    /\ holding = [j \in Jobs |-> j = 1]
    /\ crashed = FALSE

\* A state the server is in after MaxBoxID allocations: the run stage of
\* request 1 is still going on, and there are as many slots as callers.
InitWrap ==
    /\ PrimedCore(LongRequest, MaxBoxID, NJobs, "run")
    /\ InitNoStream
    /\ InitNoSession
    /\ InitNoCall
    /\ InitNoStdin
    /\ InitNoPkg
    /\ InitNoWait
    /\ InitNoProto
    /\ InitNoFiles
    /\ InitNoCalc

\* with a slot for every caller waitForSlot never parks
NextWrap ==
    \E j \in Jobs :
        \/ \E r \in GateRequests : ExecuteCode(j, r)
        \/ \E r \in GateRequests : handleInitRaw(j, r)
        \/ WaitLock(j)
        \/ Prime(j)
        \/ Compile(j, FewOutcomes)
        \/ RunBox(j)
        \/ Run(j, FewOutcomes)
        \/ releaseSlot(j)
        \/ Cleanup(j)

SpecWrap == InitWrap /\ [][NextWrap]_vars

\* the requests of SpecStream: an interpreted and a compiled runtime
StreamRequests ==
    { MkRequest("stream", l, "*", <<FileOK>>, NoOverride) : l \in {"py", "go"} }

\* One ExecuteStream call from the return of prime on: the job holds a slot
\* and its first box; the runtime's OutputMaxSize is one of budgets.
StreamJobPrimed(budgets) ==
    /\ \E r \in StreamRequests : PrimedCore(r, 1, MaxConcurrentJobs, "stream")
    /\ outputBudget \in budgets
    /\ outputSent = 0
    /\ killOnce = FALSE
    /\ runningCmd = FALSE
    /\ EventChannel = <<>>
    /\ chanClosed = FALSE
    /\ spc = "begin"
    /\ stage = "none"
    /\ stageResult = Nil
    /\ proc = [st \in Stages |-> "none"]
    /\ rpc = [r \in Readers |-> "none"]
    /\ rlen = [r \in Readers |-> 0]
    /\ nlines = 0
    /\ trace = NoTrace

\* The job of a session whose peer has read the two messages of
\* handleInitRaw and has gone away: handleMessages has closed the connection
\* ("defer wsConn.close(1000, ...)"), the job goes on, and sendMessage drops
\* what handleJobEvent makes of its events.  OutputMaxSize is anything up
\* to MaxBudget.
InitStream ==
    /\ InitNoCall
    /\ InitNoStdin
    /\ InitNoPkg
    /\ InitNoWait
    /\ InitNoProto
    /\ InitNoFiles
    /\ InitNoCalc
    /\ StreamJobPrimed(0..MaxBudget)
    /\ eventBus = <<>>
    /\ closed = TRUE
    /\ peerLog = InitMessages
    /\ execErr = FALSE

NextStream ==
    \/ StreamBegin
    \/ StreamCall
    \/ ProcExit
    \/ StreamWait
    \/ StreamStageEnd
    \/ StreamNextStage
    \/ releaseSlot(StreamJob)
    \/ StreamClose
    \/ (spc = "closed" /\ Cleanup(StreamJob))
    \/ \E r \in Readers :
         \/ Scan(r)
         \/ ScanEnd(r)
         \/ SendData(r)
         \/ triggerOutputLimitExceeded(r)
    \/ Consume

SpecStream == InitStream /\ [][NextStream]_vars

\* The session of a peer that stays: handleInitRaw has queued runtime and
\* init_ack and has started executeJob.  The runtime has no output limit
\* and its processes write to stdout only.
InitSession ==
    /\ InitNoCall
    /\ InitNoStdin
    /\ InitNoPkg
    /\ InitNoWait
    /\ InitNoProto
    /\ InitNoFiles
    /\ InitNoCalc
    /\ StreamJobPrimed({0})
    /\ eventBus = InitMessages
    /\ closed = FALSE
    /\ peerLog = <<>>
    /\ execErr = FALSE

NextSession ==
    \/ StreamBegin
    \/ StreamCall
    \/ ProcExit
    \/ StreamWait
    \/ StreamStageEnd
    \/ StreamNextStage
    \/ releaseSlot(StreamJob)
    \/ StreamClose
    \/ (spc = "closed" /\ Cleanup(StreamJob))
    \/ \E st \in Stages :
         \/ Scan(<<st, "stdout">>)
         \/ ScanEnd(<<st, "stdout">>)
         \/ SendData(<<st, "stdout">>)
    \/ Consume
    \/ eventSender
    \/ executeJobReturn

SpecSession == InitSession /\ [][NextSession]_vars

\* The session of a peer that stays and sends stdin chunks; the job has an
\* initial stdin or none, and its processes write no output.
InitStdin ==
    /\ StreamJobPrimed({0})
    /\ eventBus = InitMessages
    /\ closed = FALSE
    /\ peerLog = <<>>
    /\ execErr = FALSE
    /\ InitNoStdin
    /\ InitNoPkg
    /\ InitNoWait
    /\ InitNoProto
    /\ InitNoFiles
    /\ InitNoCalc
    /\ reqStdin \in {<<>>, <<"a">>}
    /\ jobStdin = StdinOfRequest(reqStdin)
    /\ procStdin = <<>>
    /\ stdinState = "none"
    /\ outputMaxSize = 0
    /\ cproc = "none"
    /\ pipe = [st \in Streams |-> <<>>]
    /\ wrote = [st \in Streams |-> <<>>]
    /\ buf = [b \in Buffers |-> <<>>]
    /\ creader = [st \in Streams |-> "none"]
    /\ callResult = Nil

NextStdin ==
    \/ StreamBegin
    \/ StreamCall
    \/ ProcExit
    \/ StreamWait
    \/ StreamStageEnd
    \/ StreamNextStage
    \/ releaseSlot(StreamJob)
    \/ StreamClose
    \/ (spc = "closed" /\ Cleanup(StreamJob))
    \/ Consume
    \/ eventSender
    \/ executeJobReturn
    \/ handleData
    \/ \E st \in Stages :
         \/ StdinStart(st)
         \/ StdinRecv(st)
         \/ StdinCtxDone(st)

SpecStdin == InitStdin /\ [][NextStdin]_vars

\* The package service and the registry of a server that started on an
\* empty data directory; no job.
NextPkg ==
    \/ \E p \in Packages : InstallPackage(p)
    \/ \E p \in Packages : UninstallPackage(p)
    \/ \E language \in LookupNames, version \in LookupVersions :
         Lookup(language, version)

SpecPkg == Init /\ [][NextPkg]_vars

\* the synchronous request whose run stage is looked at in SpecCall
CallRequest == MkRequest("sync", "py", "*", <<FileOK>>, NoOverride)

\* One safeCall of Execute from cmd.Start() on: the process runs, the stdin
\* goroutine and the two readWithLimit goroutines have been started.  The
\* request's stdin is any string up to MaxStdinLen, OutputMaxSize anything
\* up to the longest output tried.
InitCall ==
    /\ PrimedCore(CallRequest, 1, MaxConcurrentJobs, "run")
    /\ InitNoStream
    /\ InitNoSession
    /\ InitNoStdin
    /\ InitNoPkg
    /\ InitNoWait
    /\ InitNoProto
    /\ InitNoFiles
    /\ InitNoCalc
    /\ reqStdin \in StdinValues
    /\ jobStdin = StdinOfRequest(reqStdin)
    /\ procStdin = <<>>
    /\ stdinState = "start"
    /\ outputMaxSize \in 0..(2 * MaxLines)
    /\ cproc = "running"
    /\ pipe = [st \in Streams |-> <<>>]
    /\ wrote = [st \in Streams |-> <<>>]
    /\ buf = [b \in Buffers |-> <<>>]
    /\ creader = [st \in Streams |-> "scan"]
    /\ callResult = Nil

NextCall ==
    \/ \E st \in Streams :
         \/ ProcWrite(st)
         \/ CallRead(st)
         \/ CallReadEnd(st)
    \/ CallProcExit
    \/ StdinWrite
    \/ CallWait
    \/ CallAssemble

SpecCall == InitCall /\ [][NextCall]_vars

\* -------------------------------------------------------------- properties

\* the jobs that have returned from waitForSlot and not yet called releaseSlot
Holders == { j \in Jobs : holding[j] }

\* C1: under every interleaving of Execute and ExecuteStream calls, the
\* number of jobs between waitForSlot's return and releaseSlot is at most
\* cfg.MaxConcurrentJobs, and remainingSlots is never negative.
C1_GateBound ==
    /\ remainingSlots >= 0
    /\ Cardinality(Holders) <= maxJobs
    /\ remainingSlots + Cardinality(Holders) = maxJobs

\* every slot is taken and another job is parked in queueCondition.Wait()
C1_Contention ==
    /\ Cardinality(Holders) = maxJobs
    /\ \E j \in Jobs : pc[j] = "waiting" /\ ~holding[j]

\* Execute / ExecuteStream has returned to the handler
Returned(j) == pc[j] = "done" /\ created[j]

\* C2: on every exit path of Execute and ExecuteStream, once the call has
\* returned, isolate --cleanup has been invoked for every box the job
\* allocated with isolate --init.
C2_CleanupCoversAllocated ==
    \A j \in Jobs :
        Returned(j) => \A b \in allocated[j] : b.id \in cleaned[j]

\* a job that failed to move the submission directory has returned with its
\* two boxes cleaned
C2_TwoBoxesErrorExit ==
    \E j \in Jobs :
        /\ Returned(j)
        /\ result[j].err = "move"
        /\ Cardinality(allocated[j]) = 2
        /\ Cardinality(cleaned[j]) = 2

\* C3: no two live boxes, of one job or of different jobs, have the same box
\* ID, also after the counter has wrapped around MaxBoxID while an earlier
\* box is still live.
C3_LiveBoxIDsUnique ==
    \A a, b \in liveBoxes : a.id = b.id => a = b

\* the request breaks a validation rule or names no loaded runtime
InvalidRequest(r) ==
    \/ validateJobRequest(r)
    \/ IsNil(GetLatestRuntimeMatchingLanguageVersion(r.language, r.version))

\* C4: a request that fails validation (missing language, missing version,
\* empty files array, a file without content, unknown runtime) never creates
\* a job and never allocates a box, on the synchronous and on the streaming
\* path.
C4_InvalidNeverAllocates ==
    \A j \in Jobs :
        (req[j] # NoRequest /\ InvalidRequest(req[j]))
            => (~created[j] /\ allocated[j] = {})

\* the request carries an override above the positive maximum of its runtime
ExceedsMax(r) ==
    LET rt == GetLatestRuntimeMatchingLanguageVersion(r.language, r.version)
    IN /\ ~IsNil(rt)
       /\ r.ovr.name \in LimitNames
       /\ Deref(rt).limits[r.ovr.name] > 0
       /\ r.ovr.val > Deref(rt).limits[r.ovr.name]

\* C5: a request with a limit override above the runtime's configured maximum
\* is rejected before a box is allocated, on both paths, so that no stage
\* runs with an effective limit above a positive maximum.
C5_OverridesRejected ==
    \A j \in Jobs :
        /\ ExceedsMax(req[j]) => (~created[j] /\ allocated[j] = {})
        /\ (created[j] /\ ranStage[j] # {}) =>
              LET rt == Deref(GetLatestRuntimeMatchingLanguageVersion(
                                  req[j].language, req[j].version))
              IN \A n \in LimitNames :
                    rt.limits[n] > 0 => job[j].limits[n] <= rt.limits[n]

\* a synchronous request for a compiled runtime has returned and its compile
\* stage ended with a non-zero exit code or a signal
CompileFailedExit(j) ==
    /\ Returned(j)
    /\ job[j].mode = "sync"
    /\ job[j].compiled
    /\ ~IsNil(result[j].compile)
    /\ CompileFailed(Deref(result[j].compile))

\* C6: when the compile stage of a compiled runtime ends with a non-zero exit
\* code or a signal, the run stage is not invoked, Execute returns without an
\* error a result with compile populated and run absent, and ExecuteCode
\* answers 200 with the compile result under both compile and run.
C6_CompileFailureResult ==
    \A j \in Jobs :
        CompileFailedExit(j) =>
            /\ "run" \notin ranStage[j]
            /\ result[j].err = ""
            /\ IsNil(result[j].run)
            /\ response[j].status = 200
            /\ response[j].compile = result[j].compile
            /\ response[j].run = result[j].compile

\* C6 as stated: the result the synchronous caller receives has compile
\* populated and run absent.
C6_RunAbsentInResponse ==
    \A j \in Jobs :
        CompileFailedExit(j) =>
            /\ "run" \notin ranStage[j]
            /\ response[j].status = 200
            /\ ~IsNil(response[j].compile)
            /\ IsNil(response[j].run)

\* a compile stage killed by a signal has been answered
C6_CompileSignalled ==
    \E j \in Jobs :
        /\ CompileFailedExit(j)
        /\ Deref(result[j].compile).Signal = "SIGSEGV"
        /\ response[j].status = 200

\* the StageResults a request has got from safeCall / safeCallStream
StageResults(j) ==
    { Deref(p) : p \in { q \in {result[j].compile, result[j].run} : ~IsNil(q) } }

\* C7: every StageResult of safeCall and safeCallStream has exactly one of
\* code and signal: a signal implies a null code, no signal implies a code,
\* for every exit state and every metadata file, a missing one included.
C7_ExactlyOneOfCodeSignal ==
    \A j \in Jobs : \A r \in StageResults(j) :
        /\ r.Signal # "" => IsNil(r.Code)
        /\ r.Signal = "" => ~IsNil(r.Code)

\* a stage that ran out of time: isolate's status TO without exitsig
C7_TimedOutStage ==
    \E j \in Jobs : \E r \in StageResults(j) :
        r.Status = "TO" /\ r.Signal = "SIGKILL" /\ IsNil(r.Code)

\* C8: with a positive output budget, the bytes charged to outputSent, and so
\* the bytes carried by the data events of stdout and stderr together, never
\* exceed output_max_bytes, whatever the interleaving of the readers and
\* across the stages of the job.
C8_OutputWithinBudget ==
    outputBudget > 0 =>
        /\ outputSent <= outputBudget
        /\ trace.dataBytes <= outputSent

\* a line longer than what was left has been trimmed, sent, and the budget is
\* used up
C8_BudgetUsedUp ==
    /\ outputBudget > 0
    /\ trace.breach
    /\ outputSent = outputBudget
    /\ trace.dataBytes = outputBudget

\* C9: a breach of the output budget puts exactly one "output limit exceeded"
\* error event into the event stream: never two, and never none once
\* triggerOutputLimitExceeded has run for the reader that detected it.
C9_ExactlyOneLimitError ==
    /\ trace.ole <= 1
    /\ killOnce => trace.ole = 1

\* C10: every stage whose stage_start was emitted has got its stage_end by
\* the time ExecuteStream has returned and closed the event stream, however
\* the stage ended.
C10_StartedStagesEnd ==
    chanClosed => trace.started \subseteq trace.ended

\* the messages of a streaming session the protocol puts in a fixed order
ControlTypes == {"runtime", "init_ack", "stage_start", "stage_end"}

ControlOf(log) ==
    LET c == SelectSeq(log, LAMBDA m : m.type \in ControlTypes)
    IN [i \in 1..Len(c) |-> <<c[i].type, c[i].tag>>]

ExpectedControl(compiled) ==
    <<  <<"runtime", "">>, <<"init_ack", "">> >>
    \o (IF compiled
        THEN << <<"stage_start", "compile">>, <<"stage_end", "compile">> >>
        ELSE <<>>)
    \o << <<"stage_start", "run">>, <<"stage_end", "run">> >>

IsPrefix(s, t) == Len(s) <= Len(t) /\ \A i \in 1..Len(s) : s[i] = t[i]

\* C11: the runtime, init_ack, stage_start and stage_end messages written
\* to the peer are, in the order they are written, a prefix of runtime,
\* init_ack, stage_start(compile), stage_end(compile), stage_start(run),
\* stage_end(run), the two compile messages being left out for an
\* interpreted runtime.
C11_ControlMessagesInOrder ==
    IsPrefix(ControlOf(peerLog), ExpectedControl(job[StreamJob].compiled))
\* C12: no data event with output of a stage is emitted once the stage_end
\* of that stage has been emitted (stage_start comes first by program
\* order: the readers of a stage are started after its stage_start).
C12_NoDataAfterStageEnd == trace.late = {}
\* what is queued of the job's own events: the two messages of
\* handleInitRaw and executeJob's report of a failed execution are not
\* among them
JobMessages(bus) ==
    SelectSeq(bus, LAMBDA m : m.type \notin {"runtime", "init_ack"}
                              /\ m # ExecutionFailed)

\* C13: when the session is closed on job completion, no event the job
\* emitted is left in EventChannel or in eventBus; each has been written to
\* the peer.
C13_CloseDiscardsNothing ==
    closed => (EventChannel = <<>> /\ JobMessages(eventBus) = <<>>)
\* C14: a stage_end carries code 0 exactly when the process of its stage
\* ended by itself with exit code 0.
C14_ZeroCodeIffCleanExit ==
    \A st \in trace.ended : st \in trace.zero <=> st \in trace.clean
RECURSIVE KeptLines(_, _)
\* what readWithLimit keeps of the lines q when it reads them all: the
\* lines up to the first one that does not fit after b
KeptLines(b, q) ==
    IF q = <<>> \/ ~Fits(b, Head(q)) THEN b
    ELSE KeptLines(Append(b, Head(q)), Tail(q))

\* C15: the StageResult Execute gets has, for stdout and for stderr, every
\* line the process wrote to the stream, in order, up to the output limit.
C15_ResultHasAllOutput ==
    ~IsNil(callResult) =>
        /\ Deref(callResult).Stdout = KeptLines(<<>>, wrote["stdout"])
        /\ Deref(callResult).Stderr = KeptLines(<<>>, wrote["stderr"])
Range(q) == { q[i] : i \in 1..Len(q) }

\* the initial payload first, if at all, and then chunks in the order sent
InitialThenChunksInOrder(q) ==
    \A i \in 1..Len(q) : \A k \in 1..Len(q) : i < k => q[i] < q[k]

\* C16: a stdin chunk WriteStdin accepted while the run process was running
\* is received by no stdin goroutine but the run stage's, and what the run
\* process gets is the initial stdin and then chunks in the order sent.
C16_ChunksGoToRunProcess ==
    /\ \A c \in Range(runChunks) : c \notin Range(took["compile"])
    /\ InitialThenChunksInOrder(stdinLog["run"])
\* the packages whose install directory holds the installed sentinel
InstalledOnDisk == { p \in Packages : IsInstalled(p) }

\* the packages the registry lists
Listed == { runtimes[i].pkgDir : i \in 1..Len(runtimes) }

\* C18: after an InstallPackage or UninstallPackage call that returned
\* success, the registry lists exactly the packages whose directory holds
\* the sentinel: none is missing, none is left over.
C18_RegistryMatchesDisk ==
    pkgLast.ok => Listed = InstalledOnDisk

\* C19: after the install of a package that was not installed and the
\* uninstall of it right after, the packages directory and the registry are
\* as they were before the install.
C19_InstallUninstallRestores ==
    (pkgLast.op = "uninstall" /\ pkgLast.ok /\ ~IsNil(pkgSnap)) =>
        /\ disk = Deref(pkgSnap).disk
        /\ langDirs = Deref(pkgSnap).langDirs
        /\ runtimes = Deref(pkgSnap).runtimes

\* the runtimes of the registry that match a name and a constraint
Matching(language, version) ==
    { rt \in Range(runtimes) : ConstraintOK(version) /\ IsCandidate(rt, language, version) }

\* C20: GetLatestRuntimeMatchingLanguageVersion returns a registered runtime
\* that has the name as its language or among its aliases and a version
\* the constraint accepts, and no matching runtime has a greater version;
\* it returns not-found exactly when no registered runtime matches.
C20_LatestMatchingRuntime ==
    ~IsNil(lookup) =>
        LET l == Deref(lookup)
            m == Matching(l.language, l.version)
        IN IF m = {} THEN IsNil(l.result)
           ELSE /\ ~IsNil(l.result)
                /\ Deref(l.result) \in m
                /\ \A rt \in m : rt.version <= Deref(l.result).version

\* an alias is looked up while two versions match, the older one first
C20_NewerOfTwoByAlias ==
    /\ ~IsNil(lookup)
    /\ Deref(lookup).language = "python3" /\ Deref(lookup).version = "*"
    /\ Len(runtimes) >= 2
    /\ runtimes[1].pkgDir = <<"py", 1>> /\ runtimes[2].pkgDir = <<"py", 2>>
    /\ ~IsNil(Deref(lookup).result)
    /\ Deref(Deref(lookup).result).version = 2
\* C21: a job that came to waitForSlot when another job was already parked
\* there, or parked there after it, never gets its slot before that job.
C21_WaitersServedFIFO == fifo.passed = {}

\* jobs whose context was cancelled while they were in waitForSlot
CancelledInWait == { j \in DOMAIN ctxDone : ctxDone[j] }

\* C22: a job whose context is cancelled while it is blocked in waitForSlot
\* gets no slot and allocates no box.
C22_CancelledWaiterGetsNoSlot ==
    \A j \in CancelledInWait : ~holding[j] /\ allocated[j] = {}
C26_UnknownTypeAnsweredNonFatal ==
    last.type = "ping" =>
        /\ last.answered
        /\ last.open
        /\ wsJob = last.jobBefore /\ jobsMade = last.madeBefore
\* C27: InstallPackage of a package that is installed returns the
\* already-installed error and leaves the packages directory, the sentinel
\* and the registry as they were.
C27_InstalledPackageNotReinstalled ==
    (pkgLast.op = "install" /\ Deref(pkgSnap).disk[pkgLast.pkg] = "installed") =>
        /\ pkgLast.err = "already installed"
        /\ disk = Deref(pkgSnap).disk
        /\ langDirs = Deref(pkgSnap).langDirs
        /\ runtimes = Deref(pkgSnap).runtimes

\* an install of an installed and registered package has been refused
C27_SecondInstallRefused ==
    /\ pkgLast.op = "install" /\ pkgLast.err = "already installed"
    /\ IsInstalled(pkgLast.pkg)
    /\ pkgLast.pkg \in Listed

\* C28: after an InstallPackage that failed on the checksum the install
\* directory does not exist and the registry is as before.
C28_ChecksumFailureLeavesNothing ==
    (pkgLast.op = "install" /\ pkgLast.err = "checksum") =>
        /\ disk[pkgLast.pkg] = "absent"
        /\ runtimes = Deref(pkgSnap).runtimes
\* C29: a stage whose metadata has status TO, OL or EL gets a StageResult
\* with signal SIGKILL and no code, whatever exitsig and exitcode the
\* metadata carries and whatever the exit code of the process is.
C29_LimitStatusMeansSigkill ==
    /\ \A out \in AllOutcomes :
         (~IsNil(out.meta) /\ Deref(out.meta).status \in {"TO", "OL", "EL"}) =>
             /\ StageResultOf(out).Signal = "SIGKILL"
             /\ IsNil(StageResultOf(out).Code)
    /\ \A j \in Jobs : \A r \in StageResults(j) :
         r.Status \in {"TO", "OL", "EL"} => (r.Signal = "SIGKILL" /\ IsNil(r.Code))

\* the run stage of a compiled job has ended with status OL
C29_OutputLimitSeen ==
    \E j \in Jobs :
        /\ ~IsNil(result[j].compile) /\ ~IsNil(result[j].run)
        /\ Deref(result[j].run).Status = "OL"
        /\ Deref(result[j].run).Signal = "SIGKILL"
        /\ IsNil(Deref(result[j].run).Code)
\* a ".." element in a file name
HasDotDotElement(name) ==
    \E i \in 1..Len(SplitPath(name, <<>>)) : SplitPath(name, <<>>)[i] = <<".", ".">>

\* C30: writeFile returns an error for a file name with a ".." element and
\* for an absolute path, and every file it writes lies in the submission
\* directory of the box.
C30_FilesStayInSubmission ==
    /\ \A f \in tree : Inside(SubmissionDir, f) /\ f # SubmissionDir
    /\ nwritten > 0 =>
          ((HasDotDotElement(flast.name) \/ Head(flast.name) = "/") => flast.err # "")
\* the limit the resolution policy asks for: the package's value, else the
\* configuration's value for the language, else the process default
PolicyLimit(c) ==
    IF c.name \in DOMAIN c.overrides THEN c.overrides[c.name].val
    ELSE IF ~IsNil(GetLimitOverride(c.cfg, c.language, c.name))
         THEN Deref(GetLimitOverride(c.cfg, c.language, c.name)).val
         ELSE ConfigDefault

\* C31: the effective limit of a runtime is the value of the package's
\* limit_overrides if the package has one for the name, else the value of
\* the configuration's limit_overrides for the language, else the default.
C31_PackageOverrideWins ==
    calc.op = "limit" => calc.result = PolicyLimit(calc)
\* C32: each of Stdout, Stderr and Output of the StageResult of a
\* synchronous stage is at most OutputMaxSize bytes long, whatever the
\* process wrote.
C32_BuffersWithinOutputMax ==
    ~IsNil(callResult) =>
        /\ SumSeq(Deref(callResult).Stdout) <= outputMaxSize
        /\ SumSeq(Deref(callResult).Stderr) <= outputMaxSize
        /\ SumSeq(Deref(callResult).Output) <= outputMaxSize
\* C33: a job gives its slot back only after the cleanup of all its boxes:
\* a box of a job is live only while the job holds its slot.
C33_CleanupBeforeRelease ==
    \A j \in Jobs : \A b \in allocated[j] : b \in liveBoxes => holding[j]
\* C34: no wake-up is lost: whenever a slot is free and a job is parked in
\* queueCondition.Wait(), a waiter has been signalled and is on its way to
\* test the slot again.
C34_NoLostWakeup ==
    (remainingSlots > 0 /\ \E j \in Jobs : pc[j] = "waiting")
        => \E k \in Jobs : pc[k] = "wake"
\* a streamOutput goroutine that has an event to send yet: the data event
\* of a line it has scanned, or the error of the output limit
StillEmitting(r) ==
    \/ rpc[r] \in {"send", "sendlast"}
    \/ rpc[r] = "trigger" /\ ~killOnce

\* C35: when ExecuteStream closes EventChannel every stdout / stderr reader
\* of every stage has stopped emitting events, so that no event is sent on
\* the closed channel.
C35_NoSendAfterClose ==
    chanClosed => \A r \in Readers : ~StillEmitting(r)
\* no job is between the handler's call and its answer
NoJobActive == \A j \in Jobs : pc[j] \in {"idle", "done"}

\* C36: remainingSlots plus the number of jobs holding a slot is always
\* MaxConcurrentJobs; a job that has returned, on whatever path, holds no
\* slot, and remainingSlots is MaxConcurrentJobs when no job is active.
C36_SlotsConserved ==
    /\ remainingSlots + Cardinality(Holders) = maxJobs
    /\ \A j \in Jobs : pc[j] = "done" => ~holding[j]
    /\ NoJobActive => remainingSlots = maxJobs

\* every job has returned, one of them with an error of prime and one
\* with an error of a stage, and all slots are free again
C36_ErrorExitsGaveSlotBack ==
    /\ \A j \in Jobs : Returned(j)
    /\ \E j \in Jobs : result[j].err = "prime"
    /\ \E j \in Jobs : result[j].err \notin {"", "prime"}
    /\ remainingSlots = maxJobs
\* the changes of Job.State: NewJob makes it Ready, prime Primed, the end
\* of the run stage Executed
StateSteps == {<<"none", "Ready">>, <<"Ready", "Primed">>, <<"Primed", "Executed">>}

\* what a job in state Executed has behind it: no error return, the result
\* of the run stage, and no failed compile stage
ExecutedAfterRun(j) ==
    /\ result[j].err = ""
    /\ ~IsNil(result[j].run)
    /\ "run" \in ranStage[j]
    /\ ~IsNil(result[j].compile) =>
          LET cr == Deref(result[j].compile)
          IN cr.Signal = "" /\ (IsNil(cr.Code) \/ Deref(cr.Code) = 0)

\* C37: Job.State changes only from Ready to Primed and from Primed to
\* Executed, never backwards, and a job whose prime failed, whose compile
\* stage failed or that returned an error is never Executed.
C37_StateMovesForward ==
    /\ [](\A j \in Jobs : jstate[j] = "Executed" => ExecutedAfterRun(j))
    /\ [][\A j \in Jobs : jstate'[j] # jstate[j] =>
                             <<jstate[j], jstate'[j]>> \in StateSteps]_vars

\* a job whose compile stage failed has returned in state Primed
C37_CompileFailedStaysPrimed ==
    \E j \in Jobs : CompileFailedExit(j) /\ jstate[j] = "Primed"
\* C38: after any sequence of InstallPackage and UninstallPackage calls the
\* registry has at most one runtime for a language and a version.
C38_OneRuntimePerVersion ==
    \A i, k \in 1..Len(runtimes) :
        (runtimes[i].language = runtimes[k].language /\
         runtimes[i].version = runtimes[k].version) => i = k
\* seconds is the budget of ms milliseconds rounded up to whole seconds
RoundedUp(ms, seconds) ==
    /\ seconds >= 1
    /\ 1000 * seconds >= ms
    /\ 1000 * seconds - ms < 1000
    /\ ms < 1000 => seconds = 1

\* C39: for a positive budget of ms milliseconds, of wall-clock time or of
\* CPU time, isolate gets ceil(ms/1000) seconds: at least 1, not less than
\* the budget, less than a second more, and 1 for a sub-second budget.
C39_TimeArgsRoundedUp ==
    calc.op = "isolate" =>
        /\ calc.timeout > 0 => RoundedUp(calc.timeout, calc.wt)
        /\ calc.cpuTime > 0 => RoundedUp(calc.cpuTime, calc.ct)

\* a run_timeout of 50 ms is passed as --wall-time=1, and a CPU budget of
\* 1001 ms as --time=2
C39_FiftyMsIsOneSecond ==
    \/ calc.op = "isolate" /\ calc.timeout = 50 /\ calc.wt = 1
    \/ calc.op = "isolate" /\ calc.cpuTime = 1001 /\ calc.ct = 2
\* C40: every box ID of createIsolateBox is the counter modulo 1000 and
\* lies in 0..999, for every value of the counter, also after the 32-bit
\* counter has overflowed.
C40_BoxIDIsCounterMod1000 ==
    calc.op = "box" =>
        /\ calc.id = calc.next % 1000
        /\ calc.id \in 0..999
====
